---- MODULE Spec2Model ----
(***************************************************************************)
(* Server-side race simulation of pixel_dash: GameLoop (gameLoop.ts), the  *)
(* tile queries of LevelGenerator (levelGenerator.ts), the race start of   *)
(* LobbyManager (lobbyManager.ts) and the input entry point of the server  *)
(* (handlePlayerInput).                                                    *)
(*                                                                         *)
(* Numbers.  The program computes with doubles.  Lengths and velocities    *)
(* are modelled in fixed point, one unit = 1/100 pixel, so that every      *)
(* constant and threshold of the source (0.5, 0.05, 0.1, 0.92, 2, 4, 16)   *)
(* is an integer; the product with the friction factor is truncated to     *)
(* 1/100 pixel.  Times are in milliseconds.                                *)
(***************************************************************************)
EXTENDS Integers, Sequences, FiniteSets, TLC

(***************************************************************************)
(* Constants of gameLoop.ts (lengths in 1/100 pixel)                       *)
(***************************************************************************)
TICK_DURATION == 50
GRAVITY == 50
JUMP_STRENGTH == -1000
DASH_DISTANCE == 10
DASH_SPEED == 9000
DASH_COOLDOWN_TICKS == 30
SECOND_JUMP_STRENGTH == -600
GROUND_MOVE_SPEED == 5000
GROUND_FRICTION == 92
ROTATION_SPEED == 5
PLAYER_SIZE == 1600
TILE_SIZE == 1600
MAX_HORIZONTAL_SPEED == GROUND_MOVE_SPEED * 2
AIR_CONTROL_SPEED == (GROUND_MOVE_SPEED * 8) \div 10
MAX_VERTICAL_SPEED == 1500
STALE_MS == 200
RACE_DURATION == 90000
COUNTDOWN_MS == 3000
REQUIRED_LAPS == 2

(***************************************************************************)
(* Bounds of the model                                                     *)
(***************************************************************************)
LevelWidth == 20
LevelHeight == 10
MaxTicks == 4
MaxInputs == 2
MaxRaces == 2
\* ticks since the jump at which a race is picked up: rising, past the
\* apex, in the tick that brings the player down
RisingAge == 3
FallingAge == 21
LandingAge == 37
\* ticks since a dash input at which a race is picked up: the dash just
\* started, its cooldown about to run out
NewDashAge == 0
CooldownAge == 30
Epoch == 1000

\* a field the program never assigned (JavaScript undefined)
Undefined == -1

Abs(n) == IF n < 0 THEN -n ELSE n
Max(a, b) == IF a > b THEN a ELSE b
Min(a, b) == IF a < b THEN a ELSE b
\* integer division truncating toward zero
TruncDiv(a, b) == IF a >= 0 THEN a \div b ELSE -((-a) \div b)
\* the JavaScript remainder: the sign of the dividend
JsRem(a, n) == IF a >= 0 THEN a % n ELSE -((-a) % n)
\* Math.floor(v / TILE_SIZE)
TileOf(v) == v \div TILE_SIZE

(***************************************************************************)
(* Levels.  tiles is the array of levelGenerator.ts, indexed x*height+y.   *)
(* groundY and the two solid bottom rows follow generateSprintLevel.       *)
(***************************************************************************)
GroundY == LevelHeight - 2
TileIdx(x, y) == x * LevelHeight + y
TileIndices == 0 .. (LevelWidth * LevelHeight - 1)

\* sprint level: start tile on a raised platform (as generateSprintLevel
\* builds it), a thick wall and a one-tile ledge to the left, a two-column
\* thick wall with a hazard at its foot and a finish tile to the right, a
\* hazard at the left end
Sprint1Type(x, y) ==
  IF y >= GroundY THEN "solid"
  ELSE IF x = 8 /\ y = GroundY - 2 THEN "start"
  ELSE IF x \in 8..12 /\ y = GroundY - 1 THEN "solid"
  ELSE IF x = 4 /\ y \in (GroundY - 4)..(GroundY - 1) THEN "solid"
  ELSE IF x \in 14..15 /\ y \in (GroundY - 3)..(GroundY - 1) THEN "solid"
  ELSE IF x = 17 /\ y = GroundY - 1 THEN "finish"
  ELSE IF x \in {1, 13} /\ y = GroundY - 1 THEN "hazard"
  ELSE "empty"

\* sprint level on flat ground: start tile on the ground, a one-tile ledge
\* and a finish tile to the right, a one-column thick wall and a hazard to
\* the left
Sprint2Type(x, y) ==
  IF y >= GroundY THEN "solid"
  ELSE IF x = 9 /\ y = GroundY - 1 THEN "start"
  ELSE IF x = 13 /\ y = GroundY - 1 THEN "solid"
  ELSE IF x = 15 /\ y = GroundY - 1 THEN "finish"
  ELSE IF x = 7 /\ y \in (GroundY - 2)..(GroundY - 1) THEN "solid"
  ELSE IF x \in 2..3 /\ y = GroundY - 1 THEN "hazard"
  ELSE "empty"

\* lap level (as generateLapLevel builds it): start and finish side by side
\* on a platform, three checkpoints two rows above the ground, two hazards
Lap1Type(x, y) ==
  IF y >= GroundY THEN "solid"
  ELSE IF x = 9 /\ y = GroundY - 2 THEN "start"
  ELSE IF x = 10 /\ y = GroundY - 2 THEN "finish"
  ELSE IF x \in 9..11 /\ y = GroundY - 1 THEN "solid"
  ELSE IF x \in {8, 12, 15} /\ y = GroundY - 2 THEN "checkpoint"
  ELSE IF x \in {5, 16} /\ y = GroundY - 1 THEN "hazard"
  ELSE "empty"

\* lap level of a custom map, on flat ground: start tile on the ground, two
\* checkpoints next to it, a finish tile three columns to the right
Lap2Type(x, y) ==
  IF y >= GroundY THEN "solid"
  ELSE IF x = 9 /\ y = GroundY - 1 THEN "start"
  ELSE IF x = 12 /\ y = GroundY - 1 THEN "finish"
  ELSE IF x \in {8, 10} /\ y = GroundY - 2 THEN "checkpoint"
  ELSE "empty"

Sprint1 ==
  [id |-> "sprint_1", width |-> LevelWidth, height |-> LevelHeight,
   type |-> "sprint", checkpoints |-> << >>,
   tiles |-> [i \in TileIndices |-> Sprint1Type(i \div LevelHeight, i % LevelHeight)]]

Sprint2 ==
  [id |-> "sprint_2", width |-> LevelWidth, height |-> LevelHeight,
   type |-> "sprint", checkpoints |-> << >>,
   tiles |-> [i \in TileIndices |-> Sprint2Type(i \div LevelHeight, i % LevelHeight)]]

Lap1 ==
  [id |-> "lap_1", width |-> LevelWidth, height |-> LevelHeight,
   type |-> "lap",
   checkpoints |-> << TileIdx(8, GroundY - 2), TileIdx(12, GroundY - 2),
                      TileIdx(15, GroundY - 2) >>,
   tiles |-> [i \in TileIndices |-> Lap1Type(i \div LevelHeight, i % LevelHeight)]]

Lap2 ==
  [id |-> "lap_2", width |-> LevelWidth, height |-> LevelHeight,
   type |-> "lap",
   checkpoints |-> << TileIdx(8, GroundY - 2), TileIdx(10, GroundY - 2) >>,
   tiles |-> [i \in TileIndices |-> Lap2Type(i \div LevelHeight, i % LevelHeight)]]

\* sprint level of a custom map, on flat ground: the start tile one column
\* from the left edge of the level, two hazards a few columns to its right,
\* a finish tile further on
Sprint3Type(x, y) ==
  IF y >= GroundY THEN "solid"
  ELSE IF x = 1 /\ y = GroundY - 1 THEN "start"
  ELSE IF x \in 4..5 /\ y = GroundY - 1 THEN "hazard"
  ELSE IF x = 15 /\ y = GroundY - 1 THEN "finish"
  ELSE "empty"

Sprint3 ==
  [id |-> "sprint_3", width |-> LevelWidth, height |-> LevelHeight,
   type |-> "sprint", checkpoints |-> << >>,
   tiles |-> [i \in TileIndices |-> Sprint3Type(i \div LevelHeight, i % LevelHeight)]]

LevelIds == {"sprint_1", "sprint_2", "lap_1", "lap_2"}

LevelOf(id) ==
  CASE id = "sprint_1" -> Sprint1
    [] id = "sprint_2" -> Sprint2
    [] id = "lap_1" -> Lap1
    [] id = "sprint_3" -> Sprint3
    [] OTHER -> Lap2

(***************************************************************************)
(* LevelGenerator tile queries                                             *)
(***************************************************************************)
\* mutation of getTileAt: the coordinates are not tested, only the index
getTileAtIndexOnly(lv, x, y) ==
  IF x * lv.height + y \in DOMAIN lv.tiles
  THEN lv.tiles[x * lv.height + y]
  ELSE "null"

\* the type of the tile, or "null" outside the level
getTileAt(lv, x, y) ==
  IF x < 0 \/ x >= lv.width \/ y < 0 \/ y >= lv.height
  THEN "null"
  ELSE lv.tiles[x * lv.height + y]

isSolid(lv, x, y) == getTileAt(lv, x, y) \in {"solid", "start", "finish"}
isHazard(lv, x, y) == getTileAt(lv, x, y) = "hazard"
isCheckpoint(lv, x, y) == getTileAt(lv, x, y) = "checkpoint"
isFinish(lv, x, y) == getTileAt(lv, x, y) = "finish"

(***************************************************************************)
(* Players                                                                 *)
(***************************************************************************)
\* index of the first start tile in array order, or Undefined
StartTileIdx(lv) ==
  IF \E i \in DOMAIN lv.tiles : lv.tiles[i] = "start"
  THEN CHOOSE i \in DOMAIN lv.tiles :
         /\ lv.tiles[i] = "start"
         /\ \A j \in DOMAIN lv.tiles : lv.tiles[j] = "start" => i <= j
  ELSE Undefined

\* the record joinLobby creates, after startRace has placed it: x and y are
\* the start tile's own corner.  joinLobby sets none of hasFirstJumped,
\* hasSecondJump, isDashing (undefined, read only for truth: FALSE here) and
\* none of dashCooldown, dashRemaining, finishTime (Undefined).
StartPlayer(lv) ==
  LET i == StartTileIdx(lv)
      startX == IF i = Undefined THEN 0 ELSE (i \div lv.height) * TILE_SIZE
      startY == IF i = Undefined THEN 0 ELSE (i % lv.height) * TILE_SIZE
  IN [x |-> startX, y |-> startY, vx |-> 0, vy |-> 0, grounded |-> FALSE,
      canDash |-> TRUE, hasDashed |-> FALSE, lapCount |-> 0,
      lastCheckpoint |-> -1, finished |-> FALSE, finishTime |-> Undefined,
      distance |-> 0, rotation |-> 0,
      hasFirstJumped |-> FALSE, hasSecondJump |-> FALSE,
      isDashing |-> FALSE, dashCooldown |-> Undefined,
      dashRemaining |-> Undefined]

\* "initialize players at start" of startRace, for a player of the lobby:
\* the eleven fields the loop assigns
startRacePlayer(lv, p) ==
  LET i == StartTileIdx(lv)
  IN [p EXCEPT !.x = IF i = Undefined THEN 0 ELSE (i \div lv.height) * TILE_SIZE,
               !.y = IF i = Undefined THEN 0 ELSE (i % lv.height) * TILE_SIZE,
               !.vx = 0, !.vy = 0, !.grounded = FALSE,
               !.canDash = TRUE, !.hasDashed = FALSE, !.lapCount = 0,
               !.lastCheckpoint = -1, !.finished = FALSE, !.distance = 0]

(***************************************************************************)
(* GameLoop.updatePlayer                                                   *)
(***************************************************************************)
\* dash cooldown: undefined > 0 is false
tickCooldown(p) ==
  IF p.dashCooldown # Undefined /\ p.dashCooldown > 0
  THEN [p EXCEPT !.dashCooldown = @ - 1] ELSE p

\* mutation of the dash animation: half of the movement is counted
tickDashHalfCounted(p) ==
  IF p.isDashing
  THEN IF Abs(p.vx) < 1
       THEN [p EXCEPT !.isDashing = FALSE, !.dashRemaining = 0,
                      !.dashCooldown = DASH_COOLDOWN_TICKS]
       ELSE IF p.dashRemaining - Abs(p.vx) \div 2 <= 0
            THEN [p EXCEPT !.isDashing = FALSE, !.dashRemaining = 0,
                           !.dashCooldown = DASH_COOLDOWN_TICKS,
                           !.vx = 0]
            ELSE [p EXCEPT !.dashRemaining = @ - Abs(p.vx) \div 2]
  ELSE p

\* dash animation
tickDash(p) ==
  IF p.isDashing
  THEN IF Abs(p.vx) < 1
       THEN [p EXCEPT !.isDashing = FALSE, !.dashRemaining = 0,
                      !.dashCooldown = DASH_COOLDOWN_TICKS]
       ELSE IF p.dashRemaining - Abs(p.vx) <= 0
            THEN [p EXCEPT !.isDashing = FALSE, !.dashRemaining = 0,
                           !.dashCooldown = DASH_COOLDOWN_TICKS,
                           !.vx = 0]
            ELSE [p EXCEPT !.dashRemaining = @ - Abs(p.vx)]
  ELSE p

\* airborne: gravity and spin; grounded: rotation 0, tiny vx snapped
applyGravity(p) ==
  IF ~p.grounded
  THEN [p EXCEPT !.vy = @ + GRAVITY,
                 !.rotation = JsRem(@ + ROTATION_SPEED *
                                (IF p.vx > 0 THEN 1 ELSE -1), 360)]
  ELSE [p EXCEPT !.rotation = 0,
                 !.vx = IF Abs(@) < 5 THEN 0 ELSE @]

\* position update, distance = new x
integrate(p) ==
  [p EXCEPT !.x = @ + p.vx, !.y = @ + p.vy, !.distance = p.x + p.vx]

\* mutation of the clamping: vy is left as it is
clampVelocityVxOnly(p) ==
  [p EXCEPT !.vx = IF ~p.grounded
                   THEN Max(-MAX_HORIZONTAL_SPEED, Min(MAX_HORIZONTAL_SPEED, @))
                   ELSE @]

\* clamping: vx only while airborne, vy always
clampVelocity(p) ==
  [p EXCEPT !.vx = IF ~p.grounded
                   THEN Max(-MAX_HORIZONTAL_SPEED, Min(MAX_HORIZONTAL_SPEED, @))
                   ELSE @,
            !.vy = Max(-MAX_VERTICAL_SPEED, Min(MAX_VERTICAL_SPEED, @))]

updatePlayer(p) ==
  clampVelocity(integrate(applyGravity(tickDash(tickCooldown(p)))))

(***************************************************************************)
(* GameLoop.processInput, for a player that passed the first guard         *)
(***************************************************************************)
\* mutation of applyJump: the second jump replaces vy also while falling
applyJumpReplacing(p, input) ==
  IF ~input.jump THEN p
  ELSE IF p.grounded
       THEN [p EXCEPT !.vy = JUMP_STRENGTH, !.grounded = FALSE,
                      !.hasFirstJumped = TRUE, !.hasSecondJump = TRUE]
       ELSE IF p.hasFirstJumped /\ p.hasSecondJump
            THEN [p EXCEPT !.vy = SECOND_JUMP_STRENGTH, !.hasSecondJump = FALSE]
            ELSE IF ~p.hasFirstJumped
                 THEN [p EXCEPT !.vy = JUMP_STRENGTH,
                                !.hasFirstJumped = TRUE, !.hasSecondJump = TRUE]
                 ELSE p

\* the two-jump system
applyJump(p, input) ==
  IF ~input.jump THEN p
  ELSE IF p.grounded
       THEN [p EXCEPT !.vy = JUMP_STRENGTH, !.grounded = FALSE,
                      !.hasFirstJumped = TRUE, !.hasSecondJump = TRUE]
       ELSE IF p.hasFirstJumped /\ p.hasSecondJump
            THEN [p EXCEPT !.vy = IF p.vy < 0 THEN SECOND_JUMP_STRENGTH
                                  ELSE p.vy + SECOND_JUMP_STRENGTH,
                           !.hasSecondJump = FALSE]
            ELSE IF ~p.hasFirstJumped
                 THEN [p EXCEPT !.vy = JUMP_STRENGTH,
                                !.hasFirstJumped = TRUE, !.hasSecondJump = TRUE]
                 ELSE p

\* horizontal movement: assignment on the ground, friction without a
\* direction, air control in the air
applyMovement(p, input) ==
  IF p.grounded
  THEN IF input.left /\ ~input.right THEN [p EXCEPT !.vx = -GROUND_MOVE_SPEED]
       ELSE IF input.right /\ ~input.left THEN [p EXCEPT !.vx = GROUND_MOVE_SPEED]
       ELSE LET v == TruncDiv(p.vx * GROUND_FRICTION, 100)
            IN [p EXCEPT !.vx = IF Abs(v) < 5 THEN 0 ELSE v]
  ELSE IF input.left /\ ~input.right THEN [p EXCEPT !.vx = -AIR_CONTROL_SPEED]
       ELSE IF input.right /\ ~input.left THEN [p EXCEPT !.vx = AIR_CONTROL_SPEED]
       ELSE p

\* mutation of the dash guard: the cooldown counter is not consulted
dashTriggeredAnyCooldown(p, input) ==
  input.dash /\ ~p.isDashing

\* the guard of the dash block; undefined <= 0 is false
dashTriggered(p, input) ==
  input.dash /\ p.dashCooldown # Undefined /\ p.dashCooldown <= 0 /\ ~p.isDashing

\* dash direction: the current movement, else the input, else right
dashDirection(p, input) ==
  IF Abs(p.vx) > 10 THEN (IF p.vx > 0 THEN 1 ELSE -1)
  ELSE IF input.right THEN 1 ELSE IF input.left THEN -1 ELSE 1

\* The dash block scans the columns of the dash path, playerRight + 1 up to
\* the column of the target's right edge, or playerLeft - 1 down to the
\* column of the target; for a column checkX >= 0 it reads level.width, and
\* processInput declares no level (checkCollisions and the other methods
\* each declare their own): a ReferenceError, raised before isDashing,
\* dashRemaining or vx are assigned.  Only a path with no column >= 0
\* reaches the assignments.
dashReadsLevel(p, dir) ==
  IF dir > 0
  THEN TileOf(p.x + dir * DASH_DISTANCE * TILE_SIZE + PLAYER_SIZE) >= 0
       /\ TileOf(p.x + dir * DASH_DISTANCE * TILE_SIZE + PLAYER_SIZE)
            >= TileOf(p.x + PLAYER_SIZE) + 1
  ELSE TileOf(p.x) - 1 >= 0
       /\ TileOf(p.x) - 1 >= TileOf(p.x + dir * DASH_DISTANCE * TILE_SIZE)

startDash(p, dir) ==
  [p EXCEPT !.isDashing = TRUE,
            !.dashRemaining = DASH_DISTANCE * TILE_SIZE,
            !.vx = dir * DASH_SPEED]

\* the dash block, on the player the movement block left
applyDash(pm, input) ==
  IF dashTriggered(pm, input)
  THEN IF dashReadsLevel(pm, dashDirection(pm, input))
       THEN [player |-> pm, outcome |-> "ReferenceError"]
       ELSE [player |-> startDash(pm, dashDirection(pm, input)), outcome |-> "ok"]
  ELSE [player |-> pm, outcome |-> "ok"]

\* after the jump block: return while dashing, else movement and dash
afterJump(pj, input) ==
  IF pj.isDashing
  THEN [player |-> pj, outcome |-> "ok"]
  ELSE applyDash(applyMovement(pj, input), input)

\* mutation of processInput: the staleness test is missing
processInputNoStaleTest(p, input, nowMs) ==
  afterJump(applyJump(p, input), input)

\* processInput after its first guard: the staleness test, the jump, the
\* return while dashing, the movement, the dash
processInput(p, input, nowMs) ==
  IF input.timestamp < nowMs - STALE_MS
  THEN [player |-> p, outcome |-> "stale"]
  ELSE afterJump(applyJump(p, input), input)

\* handlePlayerInput builds the PlayerInput from the message: the dash bit
\* is not copied, a missing (0) timestamp becomes the server time
handlePlayerInput(data, nowMs) ==
  [left |-> data.left, right |-> data.right, jump |-> data.jump,
   dash |-> FALSE,
   timestamp |-> IF data.timestamp = 0 THEN nowMs ELSE data.timestamp]

(***************************************************************************)
(* GameLoop.checkCollisions.  The tile coordinates of the box are taken    *)
(* once, from the position updatePlayer left, and are not refreshed by     *)
(* the corrections that follow.                                            *)
(***************************************************************************)
tileCoords(p) ==
  [L |-> TileOf(p.x), R |-> TileOf(p.x + PLAYER_SIZE),
   T |-> TileOf(p.y), B |-> TileOf(p.y + PLAYER_SIZE),
   CX |-> TileOf(p.x + PLAYER_SIZE \div 2)]

\* "only snap position if significantly off" (0.1 px)
snapY(p, target) == IF Abs(p.y - target) > 10 THEN target ELSE p.y

\* bottom edge within [-2, +4] px of the top of row B
standsOnRow(p, B) ==
  /\ p.y + PLAYER_SIZE >= B * TILE_SIZE - 200
  /\ p.y + PLAYER_SIZE <= B * TILE_SIZE + 400

\* not moving up faster than 0.5 and within 4 px above row B + 1
landsOnRowBelow(p, B) ==
  /\ p.vy >= -50
  /\ Abs(p.y - ((B + 1) * TILE_SIZE - PLAYER_SIZE)) <= 400

\* landing on the centre tile of row B: resets the jump flags
landCenterOn(p, B) ==
  [p EXCEPT !.y = snapY(p, B * TILE_SIZE - PLAYER_SIZE), !.vy = 0,
            !.grounded = TRUE, !.rotation = 0,
            !.hasFirstJumped = FALSE, !.hasSecondJump = FALSE]

\* landing found by the fallback scan on row B: canDash / hasDashed instead
landOn(p, B) ==
  [p EXCEPT !.y = snapY(p, B * TILE_SIZE - PLAYER_SIZE), !.vy = 0,
            !.grounded = TRUE, !.rotation = 0,
            !.canDash = TRUE, !.hasDashed = FALSE]

\* landing on row B + 1 (centre or fallback): canDash / hasDashed
landBelow(p, B) ==
  [p EXCEPT !.y = snapY(p, (B + 1) * TILE_SIZE - PLAYER_SIZE), !.vy = 0,
            !.grounded = TRUE, !.rotation = 0,
            !.canDash = TRUE, !.hasDashed = FALSE]

\* the fallback scan finds ground in column x
fallbackOn(lv, p, c, x) == isSolid(lv, x, c.B) /\ standsOnRow(p, c.B)
fallbackBelow(lv, p, c, x) ==
  /\ c.B + 1 >= 0 /\ c.B + 1 < lv.height
  /\ isSolid(lv, x, c.B + 1) /\ landsOnRowBelow(p, c.B)

\* ground detection: centre tile of row B, centre tile of row B + 1, then
\* every overlapped column from left to right
groundCheck(lv, p, c) ==
  IF isSolid(lv, c.CX, c.B) /\ standsOnRow(p, c.B)
  THEN [p |-> landCenterOn(p, c.B), onGround |-> TRUE, tag |-> "CENTER"]
  ELSE IF /\ c.B + 1 < lv.height
          /\ isSolid(lv, c.CX, c.B + 1) /\ landsOnRowBelow(p, c.B)
       THEN [p |-> landBelow(p, c.B), onGround |-> TRUE, tag |-> "BELOW (CENTER)"]
       ELSE LET hits == {x \in c.L .. c.R :
                           fallbackOn(lv, p, c, x) \/ fallbackBelow(lv, p, c, x)}
            IN IF hits = {}
               THEN [p |-> p, onGround |-> FALSE, tag |-> "none"]
               ELSE LET x == CHOOSE h \in hits : \A k \in hits : h <= k
                    IN IF fallbackOn(lv, p, c, x)
                       THEN [p |-> landOn(p, c.B), onGround |-> TRUE, tag |-> "ON"]
                       ELSE [p |-> landBelow(p, c.B), onGround |-> TRUE, tag |-> "BELOW"]

\* ceiling: a solid tile in the row above the top row, in any overlapped column
ceilingCheck(lv, p, c) ==
  IF \E x \in c.L .. c.R : isSolid(lv, x, c.T - 1)
  THEN [p EXCEPT !.y = c.T * TILE_SIZE, !.vy = 0]
  ELSE p

\* the box overlaps column checkX horizontally
overlapsColumn(p, checkX) ==
  p.x + PLAYER_SIZE > checkX * TILE_SIZE /\ p.x < (checkX + 1) * TILE_SIZE

\* a wall two tiles high above the top row, in column checkX
wallAboveHead(lv, c, checkX) ==
  /\ checkX >= 0 /\ checkX < lv.width
  /\ isSolid(lv, checkX, c.T - 1) /\ isSolid(lv, checkX, c.T - 2)

\* vertical wall collision when moving upward: overlapped columns, then
\* the columns beside the box
verticalWallCheck(lv, p, c) ==
  IF p.vy < 0 /\ ~p.isDashing
  THEN LET p1 == IF \E checkX \in c.L .. c.R :
                      wallAboveHead(lv, c, checkX) /\ overlapsColumn(p, checkX)
                 THEN [p EXCEPT !.y = (c.T - 1) * TILE_SIZE, !.vy = 0]
                 ELSE p
       IN IF \E checkX \in {c.L - 1, c.R + 1} :
               wallAboveHead(lv, c, checkX) /\ overlapsColumn(p1, checkX)
          THEN [p1 EXCEPT !.y = (c.T - 1) * TILE_SIZE, !.vy = 0]
          ELSE p1
  ELSE p

\* column checkX holds a wall in the two rows above the floor row B and the
\* box is inside it
insideThickWall(lv, p, c, checkX) ==
  /\ checkX >= 0 /\ checkX < lv.width
  /\ c.B - 1 >= 0 /\ c.B - 2 >= 0
  /\ isSolid(lv, checkX, c.B - 1) /\ isSolid(lv, checkX, c.B - 2)
  /\ overlapsColumn(p, checkX)
  /\ p.y < c.B * TILE_SIZE /\ p.y + PLAYER_SIZE > (c.B - 2) * TILE_SIZE

\* an active dash is cancelled and its cooldown started
cancelDash(p) ==
  IF p.isDashing
  THEN [p EXCEPT !.isDashing = FALSE, !.dashRemaining = 0,
                 !.dashCooldown = DASH_COOLDOWN_TICKS]
  ELSE p

\* embedded-in-wall clamp: the first overlapped column, from the left, whose
\* thick wall the box is inside; the side is chosen by the sign of vx
embeddedClamp(lv, p, c) ==
  LET cols == {checkX \in c.L .. c.R : insideThickWall(lv, p, c, checkX)}
  IN IF cols = {}
     THEN [p |-> p, ret |-> FALSE, tag |-> "none"]
     ELSE LET checkX == CHOOSE k \in cols : \A j \in cols : k <= j
              tileLeftX == checkX * TILE_SIZE
              tileRightX == (checkX + 1) * TILE_SIZE
              distToLeft == Abs(p.x + PLAYER_SIZE - tileLeftX)
              distToRight == Abs(tileRightX - p.x)
              nx == IF p.vx > 0 THEN tileLeftX - PLAYER_SIZE
                    ELSE IF p.vx < 0 THEN tileRightX
                    ELSE IF distToLeft < distToRight
                         THEN tileLeftX - PLAYER_SIZE ELSE tileRightX
          IN [p |-> cancelDash([p EXCEPT !.x = nx, !.vx = 0]),
              ret |-> TRUE, tag |-> "INSIDE WALL CLAMP"]

\* "find top of wall": the loop walks up from row checkY while the tiles of
\* column col are solid; acc is the last solid row seen
RECURSIVE wallTop(_, _, _, _)
wallTop(lv, col, checkY, acc) ==
  IF checkY >= 0 /\ isSolid(lv, col, checkY)
  THEN wallTop(lv, col, checkY - 1, checkY)
  ELSE acc

\* "snap to top of platform" of the airborne wall branches
snapToPlatformTop(lv, p, col, blockingTileY, wallFaceX) ==
  [p EXCEPT !.y = wallTop(lv, col, blockingTileY, blockingTileY) * TILE_SIZE
                  - PLAYER_SIZE,
            !.vy = 0, !.grounded = TRUE,
            !.hasFirstJumped = FALSE, !.hasSecondJump = FALSE,
            !.rotation = 0, !.x = wallFaceX, !.vx = 0]

\* "auto step up": y to the ledge top, horizontal velocity kept
stepUp(p, blockingTileY) ==
  [p EXCEPT !.y = blockingTileY * TILE_SIZE - PLAYER_SIZE, !.vy = 0,
            !.grounded = TRUE, !.hasFirstJumped = FALSE,
            !.hasSecondJump = FALSE, !.rotation = 0]

\* the response once a blocking tile was accepted, the same on both sides:
\* passed-through clamp, step-up, wall block, same-level block.  wallFaceX
\* is the x that puts the box against the near face.
wallResponse(lv, p, col, det, currentFloorY, hasPassedThroughWall, playerTopY, wallFaceX, side) ==
  LET tileBottomY == (det.y + 1) * TILE_SIZE
      elevationChange == currentFloorY - det.y
      clamped == [p EXCEPT !.x = wallFaceX, !.vx = 0]
  IN IF hasPassedThroughWall
     THEN [p |-> clamped, ret |-> TRUE, tag |-> "PASSED THROUGH WALL " \o side]
     ELSE IF elevationChange = 1 /\ ~det.multi
     THEN [p |-> stepUp(p, det.y), ret |-> FALSE, tag |-> "AUTO STEP UP " \o side]
     ELSE IF \/ det.multi \/ elevationChange >= 2
             \/ (elevationChange >= 1 /\ det.y < currentFloorY)
     THEN IF p.grounded \/ p.isDashing
          THEN [p |-> cancelDash(clamped), ret |-> TRUE,
                tag |-> "WALL COLLISION " \o side]
          ELSE IF p.vy < 0 /\ playerTopY < tileBottomY
               THEN [p |-> [clamped EXCEPT !.vy = 0], ret |-> TRUE,
                     tag |-> "AIR WALL COLLISION " \o side]
               ELSE [p |-> snapToPlatformTop(lv, p, col, det.y, wallFaceX),
                     ret |-> TRUE, tag |-> "AIR COLLISION " \o side]
     ELSE IF p.grounded \/ p.isDashing
          THEN [p |-> cancelDash(clamped), ret |-> TRUE,
                tag |-> "SIDE WALL COLLISION " \o side]
          ELSE [p |-> snapToPlatformTop(lv, p, col, det.y, wallFaceX),
                ret |-> TRUE, tag |-> "AIR SIDE COLLISION " \o side]

\* column nextTileX holds a wall in the two rows above the floor row
thickAhead(lv, c, nextTileX) ==
  /\ c.B - 1 >= 0 /\ c.B - 2 >= 0
  /\ isSolid(lv, nextTileX, c.B - 1) /\ isSolid(lv, nextTileX, c.B - 2)

\* the blocking tile when neither the sweep nor the row scan found one: the
\* step-up detection.  multi is what it makes of isMultiLevelWall for a wall
\* of two tiles (the right side sets it, the left side does not).
stepDetect(lv, c, nextTileX, horizontalApproach, verticalDistance, multi) ==
  IF c.B - 1 >= 0 /\ isSolid(lv, nextTileX, c.B - 1)
  THEN IF c.B - 2 >= 0 /\ isSolid(lv, nextTileX, c.B - 2)
       THEN [y |-> wallTop(lv, nextTileX, c.B - 1, c.B - 1), multi |-> multi]
       ELSE IF /\ horizontalApproach
               /\ verticalDistance >= -TILE_SIZE
               /\ verticalDistance <= TILE_SIZE
            THEN [y |-> c.B - 1, multi |-> FALSE]
            ELSE [y |-> -1, multi |-> FALSE]
  ELSE [y |-> -1, multi |-> FALSE]

\* blockingTileY and isMultiLevelWall: the sweep, else the first row of the
\* scan from top to bottom, else the step-up detection
detectBlocking(lv, c, nextTileX, sweep, rows, stepDet) ==
  IF sweep
  THEN [y |-> wallTop(lv, nextTileX, c.B - 1, c.B - 1), multi |-> TRUE]
  ELSE IF rows # {}
  THEN [y |-> CHOOSE r \in rows : \A q \in rows : r <= q, multi |-> FALSE]
  ELSE stepDet

\* moving right (vx > 0.1): the column right of the box's right tile column.
\* vx * (TICK_DURATION / 16) is compared after multiplying both sides by 16.
\* p is the player on entry (playerRightX, playerTopY and playerBottomY are
\* taken from it), pa the player after the sweep clamp.
pathCrossesWallRight(p, c) ==
  /\ 16 * (p.x + PLAYER_SIZE) - TICK_DURATION * p.vx < 16 * (c.R + 1) * TILE_SIZE
  /\ p.x + PLAYER_SIZE >= (c.R + 1) * TILE_SIZE

sweepRight(lv, p, c) ==
  /\ thickAhead(lv, c, c.R + 1)
  /\ \/ pathCrossesWallRight(p, c)
     \/ /\ p.x + PLAYER_SIZE >= (c.R + 1) * TILE_SIZE - 200
        /\ p.x < (c.R + 1) * TILE_SIZE + TILE_SIZE

sweepClampRight(lv, p, c) ==
  IF /\ sweepRight(lv, p, c) /\ pathCrossesWallRight(p, c)
     /\ p.x + PLAYER_SIZE > (c.R + 1) * TILE_SIZE
  THEN [p EXCEPT !.x = (c.R + 1) * TILE_SIZE - PLAYER_SIZE, !.vx = 0]
  ELSE p

rowsRight(lv, p, pa, c) ==
  {y \in c.T .. c.B :
     /\ y >= 0 /\ y < lv.height
     /\ isSolid(lv, c.R + 1, y)
     /\ p.x + PLAYER_SIZE > (c.R + 1) * TILE_SIZE
     /\ pa.x < (c.R + 2) * TILE_SIZE
     /\ p.y < (y + 1) * TILE_SIZE
     /\ p.y + PLAYER_SIZE > y * TILE_SIZE}

detectRight(lv, p, pa, c) ==
  detectBlocking(lv, c, c.R + 1, sweepRight(lv, p, c), rowsRight(lv, p, pa, c),
    stepDetect(lv, c, c.R + 1,
               p.x + PLAYER_SIZE >= (c.R + 1) * TILE_SIZE - 200
                 /\ pa.x < (c.R + 2) * TILE_SIZE,
               (c.B - 1) * TILE_SIZE - (p.y + PLAYER_SIZE), TRUE))

resolveRight(lv, p, pa, c, det) ==
  LET tileLeftX == (c.R + 1) * TILE_SIZE
      tileRightX == (c.R + 2) * TILE_SIZE
      playerRightX == p.x + PLAYER_SIZE
      elevationChange == c.B - det.y
      horizontalOverlap == playerRightX > tileLeftX /\ pa.x < tileRightX
      verticalOverlap ==
        p.y < (det.y + 1) * TILE_SIZE /\ p.y + PLAYER_SIZE > det.y * TILE_SIZE
      isApproaching == playerRightX >= tileLeftX - 200 /\ pa.x < tileRightX
      shouldStepUp == elevationChange = 1 /\ isApproaching
      willBeApproaching ==
        /\ 16 * (pa.x + PLAYER_SIZE) + TICK_DURATION * pa.vx >= 16 * tileLeftX
        /\ 16 * pa.x + TICK_DURATION * pa.vx < 16 * tileRightX
      movementPathIntersects ==
        /\ pa.vx > 0 /\ pa.x < tileRightX
        /\ 16 * pa.x + TICK_DURATION * pa.vx >= 16 * tileLeftX
      isApproachingWall ==
        isApproaching \/ willBeApproaching \/ movementPathIntersects
      shouldBlock ==
        det.multi \/ elevationChange >= 2
                  \/ (elevationChange >= 1 /\ det.y < c.B)
      hasPassedThroughWall ==
        det.multi /\ playerRightX > tileLeftX /\ pa.x < tileLeftX
      shouldBlockWithOverlap ==
        IF det.multi
        THEN isApproachingWall \/ horizontalOverlap \/ hasPassedThroughWall
        ELSE shouldBlock
             /\ (isApproachingWall \/ (horizontalOverlap /\ verticalOverlap))
  IN IF /\ det.y # -1
        /\ \/ shouldStepUp
           \/ shouldBlockWithOverlap
           \/ (horizontalOverlap /\ verticalOverlap /\ elevationChange = 0)
     THEN wallResponse(lv, pa, c.R + 1, det, c.B, hasPassedThroughWall, p.y,
                       tileLeftX - PLAYER_SIZE, "RIGHT")
     ELSE [p |-> pa, ret |-> FALSE, tag |-> "none"]

scanRight(lv, p, pa, c) == resolveRight(lv, p, pa, c, detectRight(lv, p, pa, c))

moveRight(lv, p, c) ==
  IF lv.id = "testground" /\ c.R + 1 >= lv.width
  THEN [p |-> [p EXCEPT !.x = 2 * TILE_SIZE], ret |-> FALSE, tag |-> "WRAP RIGHT"]
  ELSE IF ~(c.R + 1 >= 0 /\ c.R + 1 < lv.width)
  THEN [p |-> p, ret |-> FALSE, tag |-> "none"]
  ELSE scanRight(lv, p, sweepClampRight(lv, p, c), c)

\* moving left (vx < -0.1): the column left of the box's left tile column.
\* Unlike the right side, the step-up detection does not mark a two-tile
\* wall as multi-level, and isStepUp excludes multi-level walls.
pathCrossesWallLeft(p, c) ==
  /\ 16 * p.x - TICK_DURATION * p.vx > 16 * c.L * TILE_SIZE
  /\ p.x <= c.L * TILE_SIZE

sweepLeft(lv, p, c) ==
  /\ thickAhead(lv, c, c.L - 1)
  /\ \/ pathCrossesWallLeft(p, c)
     \/ /\ p.x <= c.L * TILE_SIZE + 200
        /\ p.x + PLAYER_SIZE > (c.L - 1) * TILE_SIZE

sweepClampLeft(lv, p, c) ==
  IF sweepLeft(lv, p, c) /\ pathCrossesWallLeft(p, c) /\ p.x < c.L * TILE_SIZE
  THEN [p EXCEPT !.x = c.L * TILE_SIZE, !.vx = 0]
  ELSE p

rowsLeft(lv, p, pa, c) ==
  {y \in c.T .. c.B :
     /\ y >= 0 /\ y < lv.height
     /\ isSolid(lv, c.L - 1, y)
     /\ p.x < c.L * TILE_SIZE
     /\ pa.x + PLAYER_SIZE > (c.L - 1) * TILE_SIZE
     /\ p.y < (y + 1) * TILE_SIZE
     /\ p.y + PLAYER_SIZE > y * TILE_SIZE}

detectLeft(lv, p, pa, c) ==
  detectBlocking(lv, c, c.L - 1, sweepLeft(lv, p, c), rowsLeft(lv, p, pa, c),
    stepDetect(lv, c, c.L - 1,
               p.x <= c.L * TILE_SIZE + 200
                 /\ pa.x + PLAYER_SIZE > (c.L - 1) * TILE_SIZE,
               (c.B - 1) * TILE_SIZE - (p.y + PLAYER_SIZE), FALSE))

resolveLeft(lv, p, pa, c, det) ==
  LET tileLeftX == (c.L - 1) * TILE_SIZE
      tileRightX == c.L * TILE_SIZE
      playerLeftX == p.x
      elevationChange == c.B - det.y
      horizontalOverlap ==
        playerLeftX < tileRightX /\ pa.x + PLAYER_SIZE > tileLeftX
      verticalOverlap ==
        p.y < (det.y + 1) * TILE_SIZE /\ p.y + PLAYER_SIZE > det.y * TILE_SIZE
      isApproaching ==
        playerLeftX <= tileRightX + 200 /\ pa.x + PLAYER_SIZE > tileLeftX
      shouldStepUp == elevationChange = 1 /\ ~det.multi /\ isApproaching
      willBeApproaching ==
        /\ 16 * pa.x + TICK_DURATION * pa.vx <= 16 * tileRightX
        /\ 16 * (pa.x + PLAYER_SIZE) + TICK_DURATION * pa.vx > 16 * tileLeftX
      movementPathIntersects ==
        /\ pa.vx < 0 /\ pa.x + PLAYER_SIZE > tileLeftX
        /\ 16 * pa.x + TICK_DURATION * pa.vx <= 16 * tileRightX
      isApproachingWall ==
        isApproaching \/ willBeApproaching \/ movementPathIntersects
      shouldBlock ==
        det.multi \/ elevationChange >= 2
                  \/ (elevationChange >= 1 /\ det.y < c.B)
      hasPassedThroughWall ==
        det.multi /\ playerLeftX < tileRightX /\ pa.x + PLAYER_SIZE > tileRightX
      shouldBlockWithOverlap ==
        IF det.multi
        THEN isApproachingWall \/ horizontalOverlap \/ hasPassedThroughWall
        ELSE shouldBlock
             /\ (isApproachingWall \/ (horizontalOverlap /\ verticalOverlap))
  IN IF /\ det.y # -1
        /\ \/ shouldStepUp
           \/ shouldBlockWithOverlap
           \/ (horizontalOverlap /\ verticalOverlap /\ elevationChange = 0)
     THEN wallResponse(lv, pa, c.L - 1, det, c.B, hasPassedThroughWall, p.y,
                       tileRightX, "LEFT")
     ELSE [p |-> pa, ret |-> FALSE, tag |-> "none"]

scanLeft(lv, p, pa, c) == resolveLeft(lv, p, pa, c, detectLeft(lv, p, pa, c))

moveLeft(lv, p, c) ==
  IF lv.id = "testground" /\ c.L - 1 < 0
  THEN [p |-> [p EXCEPT !.x = (lv.width - 3) * TILE_SIZE], ret |-> FALSE,
        tag |-> "WRAP LEFT"]
  ELSE IF ~(c.L - 1 >= 0 /\ c.L - 1 < lv.width)
  THEN [p |-> p, ret |-> FALSE, tag |-> "none"]
  ELSE scanLeft(lv, p, sweepClampLeft(lv, p, c), c)

\* side walls: only for |vx| > 0.1
sideWallCheck(lv, p, c) ==
  IF p.vx > 10 THEN moveRight(lv, p, c)
  ELSE IF p.vx < -10 THEN moveLeft(lv, p, c)
  ELSE [p |-> p, ret |-> FALSE, tag |-> "none"]

\* respawnPlayer: onto the first start tile; isDashing, dashRemaining,
\* lapCount, distance and rotation are not touched
respawnPlayer(lv, p) ==
  LET i == StartTileIdx(lv)
  IN IF i = Undefined THEN p
     ELSE [p EXCEPT !.x = (i \div lv.height) * TILE_SIZE,
                    !.y = (i % lv.height) * TILE_SIZE - PLAYER_SIZE,
                    !.vx = 0, !.vy = 0, !.grounded = FALSE,
                    !.hasFirstJumped = FALSE, !.hasSecondJump = FALSE,
                    !.canDash = TRUE, !.hasDashed = FALSE,
                    !.dashCooldown = 0, !.lastCheckpoint = -1]

\* a hazard tile in the tile range of the box
touchesHazard(lv, c) ==
  \E x \in c.L .. c.R : \E y \in c.T .. c.B : isHazard(lv, x, y)

\* The end of checkCollisions: the early returns of the wall stages, the
\* hazard check, the grounded validation.  The result carries, besides the
\* player, what the method did: onGround (ground detection found support),
\* wall (the side-wall branch, named after its log line), respawned.
resolveCollisions(lv, c, g, e, w) ==
  IF e.ret
  THEN [p |-> e.p, onGround |-> g.onGround, wall |-> e.tag, respawned |-> FALSE]
  ELSE IF w.ret
  THEN [p |-> w.p, onGround |-> g.onGround, wall |-> w.tag, respawned |-> FALSE]
  ELSE IF touchesHazard(lv, c)
  THEN [p |-> respawnPlayer(lv, w.p), onGround |-> g.onGround,
        wall |-> w.tag, respawned |-> TRUE]
  ELSE [p |-> IF w.p.grounded /\ ~g.onGround
              THEN [w.p EXCEPT !.grounded = FALSE] ELSE w.p,
        onGround |-> g.onGround, wall |-> w.tag, respawned |-> FALSE]

\* the wall stages, on the player pv the vertical stages left
wallStages(lv, c, g, pv) ==
  resolveCollisions(lv, c, g, embeddedClamp(lv, pv, c), sideWallCheck(lv, pv, c))

\* the stages after ground detection g: ceiling, vertical wall, walls
afterGround(lv, c, g) ==
  wallStages(lv, c, g, verticalWallCheck(lv, ceilingCheck(lv, g.p, c), c))

checkCollisionsAt(lv, p0, c) == afterGround(lv, c, groundCheck(lv, p0, c))

\* the whole of checkCollisions
checkCollisions(lv, p0) == checkCollisionsAt(lv, p0, tileCoords(p0))

(***************************************************************************)
(* Race progress                                                           *)
(***************************************************************************)
centerTileX(p) == TileOf(p.x + PLAYER_SIZE \div 2)
centerTileY(p) == TileOf(p.y + PLAYER_SIZE \div 2)

\* mutation of checkCheckpoints: the index after the next one is recorded
checkCheckpointsSkipping(lv, mode, p) ==
  IF mode # "lap" \/ Len(lv.checkpoints) = 0
  THEN p
  ELSE LET nextCheckpointIdx == (p.lastCheckpoint + 1) % Len(lv.checkpoints)
           checkpointIdx == lv.checkpoints[nextCheckpointIdx + 1]
       IN IF /\ checkpointIdx \in DOMAIN lv.tiles
             /\ Abs(centerTileX(p) - (checkpointIdx \div lv.height)) < 2
             /\ Abs(centerTileY(p) - (checkpointIdx % lv.height)) < 2
          THEN [p EXCEPT !.lastCheckpoint = (nextCheckpointIdx + 1) % Len(lv.checkpoints),
                         !.lapCount = IF nextCheckpointIdx = 0 THEN @ + 1 ELSE @]
          ELSE p

\* checkCheckpoints: the next checkpoint of the ordered list is reached when
\* the centre tile is less than 2 tiles from it in both axes.  After the
\* assignment lastCheckpoint = next, the lap test "lastCheckpoint === 0 &&
\* nextCheckpointIdx === 0" is the test next = 0.
checkCheckpoints(lv, mode, p) ==
  IF mode # "lap" \/ Len(lv.checkpoints) = 0
  THEN p
  ELSE LET nextCheckpointIdx == (p.lastCheckpoint + 1) % Len(lv.checkpoints)
           checkpointIdx == lv.checkpoints[nextCheckpointIdx + 1]
           cpX == checkpointIdx \div lv.height
           cpY == checkpointIdx % lv.height
       IN IF /\ checkpointIdx \in DOMAIN lv.tiles
             /\ Abs(centerTileX(p) - cpX) < 2
             /\ Abs(centerTileY(p) - cpY) < 2
          THEN [p EXCEPT !.lastCheckpoint = nextCheckpointIdx,
                         !.lapCount = IF nextCheckpointIdx = 0 THEN @ + 1 ELSE @]
          ELSE p

\* mutation of checkFinish: lap mode does not test the lap count
checkFinishAnyLap(lv, mode, p, nowMs, start) ==
  IF (mode = "sprint" \/ mode = "lap")
     /\ isFinish(lv, centerTileX(p), centerTileY(p)) /\ ~p.finished
  THEN [p EXCEPT !.finished = TRUE, !.finishTime = nowMs - start]
  ELSE p

\* mutation of checkFinish: the tile under the feet is looked at, not the
\* tile of the centre
checkFinishUnderFeet(lv, mode, p, nowMs, start) ==
  LET onFinish == isFinish(lv, centerTileX(p), TileOf(p.y + PLAYER_SIZE))
      reached == IF mode = "sprint" THEN onFinish
                 ELSE mode = "lap" /\ p.lapCount >= REQUIRED_LAPS /\ onFinish
  IN IF reached /\ ~p.finished
     THEN [p EXCEPT !.finished = TRUE, !.finishTime = nowMs - start]
     ELSE p

\* checkFinish: the centre tile is a finish tile (lap mode: and enough laps)
checkFinish(lv, mode, p, nowMs, start) ==
  LET onFinish == isFinish(lv, centerTileX(p), centerTileY(p))
      reached == IF mode = "sprint" THEN onFinish
                 ELSE mode = "lap" /\ p.lapCount >= REQUIRED_LAPS /\ onFinish
  IN IF reached /\ ~p.finished
     THEN [p EXCEPT !.finished = TRUE, !.finishTime = nowMs - start]
     ELSE p

\* mutation of checkRaceEnd: the time limit is not tested
checkRaceEndNoTimeLimit(ps, mode, nowMs, start, st, et) ==
  IF mode = "sprint" /\ \A id \in DOMAIN ps : ps[id].finished
  THEN [status |-> "finished", endTime |-> nowMs]
  ELSE [status |-> st, endTime |-> et]

\* mutation of checkRaceEnd: the all-finished test is not limited to sprint
checkRaceEndAnyMode(ps, mode, nowMs, start, st, et) ==
  IF nowMs - start > RACE_DURATION
  THEN [status |-> "finished", endTime |-> nowMs]
  ELSE IF \A id \in DOMAIN ps : ps[id].finished
       THEN [status |-> "finished", endTime |-> nowMs]
       ELSE [status |-> st, endTime |-> et]

\* checkRaceEnd: the time limit, then (sprint only) all players finished
checkRaceEnd(ps, mode, nowMs, start, st, et) ==
  IF nowMs - start > RACE_DURATION
  THEN [status |-> "finished", endTime |-> nowMs]
  ELSE IF mode = "sprint" /\ \A id \in DOMAIN ps : ps[id].finished
       THEN [status |-> "finished", endTime |-> nowMs]
       ELSE [status |-> st, endTime |-> et]

\* one player's share of a tick: updatePlayer, checkCollisions,
\* checkCheckpoints, checkFinish; reached is the index of the checkpoint
\* checkCheckpoints assigned to lastCheckpoint in this tick, or -1
progressAfter(lv, mode, col, nowMs, start) ==
  [p |-> checkFinish(lv, mode, checkCheckpoints(lv, mode, col.p), nowMs, start),
   onGround |-> col.onGround, wall |-> col.wall, respawned |-> col.respawned,
   ticked |-> TRUE,
   reached |-> IF checkCheckpoints(lv, mode, col.p) # col.p
               THEN checkCheckpoints(lv, mode, col.p).lastCheckpoint
               ELSE -1]

tickPlayer(lv, mode, p, nowMs, start) ==
  progressAfter(lv, mode, checkCollisions(lv, updatePlayer(p)), nowMs, start)

\* mutation of tickUnfinished: a finished player is processed like any other
tickEveryPlayer(lv, mode, p, nowMs, start) ==
  tickPlayer(lv, mode, p, nowMs, start)

\* the loop body of update: "if (player.finished) continue"
tickUnfinished(lv, mode, p, nowMs, start) ==
  IF p.finished
  THEN [p |-> p, onGround |-> FALSE, wall |-> "none", respawned |-> FALSE,
        ticked |-> FALSE, reached |-> -1]
  ELSE tickPlayer(lv, mode, p, nowMs, start)

RECURSIVE updateInOrder(_, _, _, _, _, _)
\* mutation of the loop of update: it ends after its first iteration
updateFirstInOrder(lv, mode, ps, order, nowMs, start) ==
  IF order = << >> THEN ps
  ELSE [ps EXCEPT ![Head(order)] =
          tickUnfinished(lv, mode, ps[Head(order)], nowMs, start).p]

\* the loop of update over the players of the Map, taken one after the
\* other in the given order: each iteration works on the record of its own
\* player in the map the iterations before it left
updateInOrder(lv, mode, ps, order, nowMs, start) ==
  IF order = << >> THEN ps
  ELSE updateInOrder(lv, mode,
                     [ps EXCEPT ![Head(order)] =
                        tickUnfinished(lv, mode, ps[Head(order)], nowMs, start).p],
                     Tail(order), nowMs, start)

(***************************************************************************)
(* LobbyManager.getRaceResults                                             *)
(***************************************************************************)
\* the players in the order of the Map: the order in which they joined
JoinOrder == << "p1", "p2" >>

\* the comparator of the sort: finish status, then time, then distance;
\* "finishTime || 0" takes an undefined time as 0
compareResults(a, b) ==
  IF a.finished /\ ~b.finished THEN -1
  ELSE IF ~a.finished /\ b.finished THEN 1
  ELSE IF a.finished /\ b.finished
       THEN (IF a.finishTime = Undefined THEN 0 ELSE a.finishTime)
            - (IF b.finishTime = Undefined THEN 0 ELSE b.finishTime)
       ELSE b.distance - a.distance

\* Array.prototype.sort is a stable sort: id goes behind the last element
\* of the sorted prefix that the comparator does not put after it
RECURSIVE insertSorted(_, _, _)
insertSorted(ps, sorted, id) ==
  IF sorted = << >> THEN << id >>
  ELSE IF compareResults(ps[sorted[Len(sorted)]], ps[id]) > 0
       THEN Append(insertSorted(ps, SubSeq(sorted, 1, Len(sorted) - 1), id),
                   sorted[Len(sorted)])
       ELSE Append(sorted, id)

RECURSIVE sortPlayers(_, _, _)
sortPlayers(ps, order, n) ==
  IF n = 0 THEN << >>
  ELSE insertSorted(ps, sortPlayers(ps, order, n - 1), order[n])

\* coins: base reward plus the bonus of the top three
coinsEarned(placement) ==
  50 + (IF placement = 1 THEN 100 ELSE IF placement = 2 THEN 50
        ELSE IF placement = 3 THEN 25 ELSE 0)

\* one RaceResult per player, in the order order
resultsInOrder(ps, mode, order) ==
  [i \in 1 .. Len(order) |->
     [playerId |-> order[i], placement |-> i,
      time |-> ps[order[i]].finishTime,
      lapsCompleted |-> IF mode = "lap" THEN ps[order[i]].lapCount ELSE Undefined,
      coinsEarned |-> coinsEarned(i)]]

\* mutation of getRaceResults: the players are not sorted
getRaceResultsUnsorted(ps, mode, st) ==
  IF st # "finished" THEN << >>
  ELSE resultsInOrder(ps, mode, JoinOrder)

\* getRaceResults: null (here << >>) unless the race is finished
getRaceResults(ps, mode, st) ==
  IF st # "finished" THEN << >>
  ELSE resultsInOrder(ps, mode, sortPlayers(ps, JoinOrder, Len(JoinOrder)))

(***************************************************************************)
(* State                                                                   *)
(***************************************************************************)
VARIABLES
  players,     \* gameState.players: id -> Player
  status,      \* gameState.status
  mode,        \* gameState.mode
  level,       \* gameState.level, by id
  startTime,   \* gameState.startTime
  endTime,     \* gameState.endTime, Undefined until the race ends
  countdown,   \* gameState.countdown
  lastTick,    \* GameLoop.lastTick
  timerDue,    \* when the countdown timer of startRace fires, or Undefined
  now,         \* Date.now()
  tickCount,   \* ticks processed so far
  inputCount,  \* input events so far
  tickState,   \* the players as the last processed tick (or race start) left them
  visits,      \* per player, the checkpoint indices reached since race start, in order
  results,     \* the results of the race_end broadcast, << >> until the race ends
  raceNo,      \* the number of the race in the lobby: 1 for the first one
  earlierTimer, \* when the still pending countdown timer of an earlier
               \* startRace call fires, or Undefined
  lobbyPlayers, \* lobby.players: the ids of the players in the lobby
  raceEnds,    \* the race_end broadcasts made for this game state so far
  last         \* the last call made: what it was and what it did

vars == << players, status, mode, level, startTime, endTime, countdown,
           lastTick, timerDue, now, tickCount, inputCount, tickState, visits,
           results, raceNo, earlierTimer, lobbyPlayers, raceEnds, last >>

Roster == {"p1", "p2"}
\* ids input events are addressed to: the roster and a player not in the race
InputIds == Roster \cup {"ghost"}

NoEvent == [onGround |-> FALSE, wall |-> "none", respawned |-> FALSE, ticked |-> FALSE]
NoEvents == [id \in Roster |-> NoEvent]

\* the state startRace leaves: players on the start tile, countdown running,
\* the 3 s timer set, a fresh GameLoop (lastTick = 0)
Init ==
  /\ level \in LevelIds
  /\ mode = LevelOf(level).type
  /\ players = [id \in Roster |-> StartPlayer(LevelOf(level))]
  /\ status = "countdown"
  /\ now = Epoch
  /\ startTime = Epoch + COUNTDOWN_MS
  /\ endTime = Undefined
  /\ countdown = 3
  /\ lastTick = 0
  /\ timerDue = Epoch + COUNTDOWN_MS
  /\ tickCount = 0
  /\ inputCount = 0
  /\ tickState = players
  /\ visits = [id \in Roster |-> << >>]
  /\ results = << >>
  /\ raceNo = 1
  /\ earlierTimer = Undefined
  /\ lobbyPlayers = Roster
  /\ raceEnds = 0
  /\ last = [op |-> "startRace", id |-> "-", outcome |-> "ok", ev |-> NoEvents]

\* the setTimeout callback of startRace
CountdownTimer ==
  /\ timerDue # Undefined /\ now >= timerDue
  /\ status' = "racing"
  /\ startTime' = now
  /\ countdown' = Undefined
  /\ timerDue' = Undefined
  /\ tickState' = players
  /\ last' = [op |-> "countdownTimer", id |-> "-", outcome |-> "ok", ev |-> NoEvents]
  /\ UNCHANGED << players, mode, level, endTime, lastTick, now, tickCount, inputCount,
                  visits, results, raceNo, earlierTimer, lobbyPlayers, raceEnds >>

\* wall-clock time passes: to the end of the countdown; during the race by
\* one tick duration or by the maximum race duration, once per processed
\* tick (after MaxTicks ticks only the step to the time limit is left); after
\* the race by one tick duration.
AdvanceClock(d) ==
  /\ \/ status = "countdown" /\ timerDue # Undefined /\ now < timerDue
        /\ d = COUNTDOWN_MS
     \/ status = "racing" /\ now - lastTick < TICK_DURATION
        /\ tickCount < MaxTicks
        /\ d \in {TICK_DURATION, RACE_DURATION}
     \/ status = "racing"
        /\ tickCount >= MaxTicks /\ now - startTime <= RACE_DURATION
        /\ d = RACE_DURATION
     \/ status = "finished" /\ now = endTime
        /\ d = TICK_DURATION
  /\ now' = now + d
  /\ last' = [op |-> "clock", id |-> "-", outcome |-> "ok", ev |-> NoEvents]
  /\ UNCHANGED << players, status, mode, level, startTime, endTime, countdown,
                  lastTick, timerDue, tickCount, inputCount, tickState, visits, results, raceNo, earlierTimer, lobbyPlayers, raceEnds >>

\* the end of a processed tick: res is what the loop over the players gave.
\* The tick count is bounded by MaxTicks, the tick at the time limit excepted.
\* The interval of the server calls getRaceResults right after the update
\* that ended the race, and broadcasts race_end with what it returns.
FinishTick(res) ==
  /\ \/ tickCount < MaxTicks
     \/ tickCount >= MaxTicks /\ now - startTime > RACE_DURATION
  /\ lastTick' = now
  /\ players' = [id \in DOMAIN players |-> res[id].p]
  /\ status' = checkRaceEnd(players', mode, now, startTime, status, endTime).status
  /\ endTime' = checkRaceEnd(players', mode, now, startTime, status, endTime).endTime
  /\ tickCount' = tickCount + 1
  /\ tickState' = players'
  /\ visits' = [id \in Roster |->
                  IF res[id].reached = -1 THEN visits[id]
                  ELSE Append(visits[id], res[id].reached)]
  /\ last' = [op |-> "tick", id |-> "-", outcome |-> "ok",
              ev |-> [id \in Roster |->
                        [onGround |-> res[id].onGround, wall |-> res[id].wall,
                         respawned |-> res[id].respawned,
                         ticked |-> res[id].ticked]]]
  /\ results' = getRaceResults(players', mode, status')
  /\ raceEnds' = IF status' = "finished" THEN raceEnds + 1 ELSE raceEnds
  /\ UNCHANGED << mode, level, startTime, countdown, timerDue, now, inputCount,
                  raceNo, earlierTimer, lobbyPlayers >>

\* mutation of Update: the status is not tested
UpdateAnyStatus ==
  IF now - lastTick < TICK_DURATION
  THEN /\ last' = [op |-> "update", id |-> "-", outcome |-> "skipped", ev |-> NoEvents]
       /\ UNCHANGED << players, status, mode, level, startTime, endTime, countdown,
                       lastTick, timerDue, now, tickCount, inputCount, tickState,
                       visits, results, raceNo, earlierTimer, lobbyPlayers, raceEnds >>
  ELSE FinishTick([id \in DOMAIN players |->
                     tickUnfinished(LevelOf(level), mode, players[id], now, startTime)])

\* mutation of Update: the time since the last tick is not tested
UpdateAnyTime ==
  IF status # "racing"
  THEN /\ last' = [op |-> "update", id |-> "-", outcome |-> "not racing", ev |-> NoEvents]
       /\ UNCHANGED << players, status, mode, level, startTime, endTime, countdown,
                       lastTick, timerDue, now, tickCount, inputCount, tickState,
                       visits, results, raceNo, earlierTimer, lobbyPlayers, raceEnds >>
  ELSE FinishTick([id \in DOMAIN players |->
                     tickUnfinished(LevelOf(level), mode, players[id], now, startTime)])

\* GameLoop.update: nothing unless racing and a tick duration has passed;
\* otherwise every unfinished player is processed, then checkRaceEnd
Update ==
  IF status # "racing"
  THEN /\ last' = [op |-> "update", id |-> "-", outcome |-> "not racing", ev |-> NoEvents]
       /\ UNCHANGED << players, status, mode, level, startTime, endTime, countdown,
                       lastTick, timerDue, now, tickCount, inputCount, tickState,
                       visits, results, raceNo, earlierTimer, lobbyPlayers, raceEnds >>
  ELSE IF now - lastTick < TICK_DURATION
  THEN /\ last' = [op |-> "update", id |-> "-", outcome |-> "skipped", ev |-> NoEvents]
       /\ UNCHANGED << players, status, mode, level, startTime, endTime, countdown,
                       lastTick, timerDue, now, tickCount, inputCount, tickState,
                       visits, results, raceNo, earlierTimer, lobbyPlayers, raceEnds >>
  ELSE FinishTick([id \in DOMAIN players |->
                     tickUnfinished(LevelOf(level), mode, players[id], now, startTime)])

Buttons == [left : BOOLEAN, right : BOOLEAN, jump : BOOLEAN, dash : BOOLEAN]
\* timestamps of an input event: at the edge of the window, stale
Timestamps == {now - STALE_MS, now - STALE_MS - 1}
\* a player_input message carries no dash; its timestamp may be missing (0)
Messages == [left : BOOLEAN, right : BOOLEAN, jump : BOOLEAN,
             timestamp : {0, now - STALE_MS - 1}]

\* mutation of ProcessInputCall: the first guard does not test finished
ProcessInputCallFinishedToo(id, input) ==
  IF id \notin DOMAIN players \/ status # "racing"
  THEN /\ last' = [op |-> "processInput", id |-> id, outcome |-> "ignored", ev |-> NoEvents]
       /\ UNCHANGED players
  ELSE LET r == processInput(players[id], input, now)
       IN /\ players' = [players EXCEPT ![id] = r.player]
          /\ last' = [op |-> "processInput", id |-> id, outcome |-> r.outcome, ev |-> NoEvents]

\* the whole of GameLoop.processInput(playerId, input)
ProcessInputCall(id, input) ==
  IF id \notin DOMAIN players \/ status # "racing" \/ players[id].finished
  THEN /\ last' = [op |-> "processInput", id |-> id, outcome |-> "ignored", ev |-> NoEvents]
       /\ UNCHANGED players
  ELSE LET r == processInput(players[id], input, now)
       IN /\ players' = [players EXCEPT ![id] = r.player]
          /\ last' = [op |-> "processInput", id |-> id, outcome |-> r.outcome, ev |-> NoEvents]

\* a direct call of GameLoop.processInput
ProcessInput(id, input) ==
  /\ inputCount < MaxInputs
  /\ inputCount' = inputCount + 1
  /\ ProcessInputCall(id, input)
  /\ UNCHANGED << status, mode, level, startTime, endTime, countdown,
                  lastTick, timerDue, now, tickCount, tickState, visits, results, raceNo, earlierTimer, lobbyPlayers, raceEnds >>

\* the server's handlePlayerInput for a player_input message
HandlePlayerInput(id, data) ==
  /\ inputCount < MaxInputs
  /\ inputCount' = inputCount + 1
  /\ IF status = "racing"
     THEN ProcessInputCall(id, handlePlayerInput(data, now))
     ELSE /\ last' = [op |-> "handlePlayerInput", id |-> id, outcome |-> "ignored",
                      ev |-> NoEvents]
          /\ UNCHANGED players
  /\ UNCHANGED << status, mode, level, startTime, endTime, countdown,
                  lastTick, timerDue, now, tickCount, tickState, visits, results, raceNo, earlierTimer, lobbyPlayers, raceEnds >>

Next ==
  \/ CountdownTimer
  \/ \E d \in {TICK_DURATION, COUNTDOWN_MS, RACE_DURATION} : AdvanceClock(d)
  \/ Update
  \/ \E id \in InputIds, b \in Buttons, ts \in Timestamps :
       ProcessInput(id, [left |-> b.left, right |-> b.right, jump |-> b.jump,
                         dash |-> b.dash, timestamp |-> ts])
  \/ \E id \in Roster, data \in Messages : HandlePlayerInput(id, data)

Spec == Init /\ [][Next]_vars

\* startRace for the next race of the lobby, asked for once the race has
\* ended (start_race message): the level and mode the vote gave, the players
\* of the lobby placed on the start tile, a new game state and countdown
\* timer, a new GameLoop (lastTick = 0)
StartRace(lv) ==
  /\ status = "finished" /\ raceNo < MaxRaces
  /\ raceNo' = raceNo + 1
  /\ level' = lv
  /\ mode' = LevelOf(lv).type
  /\ players' = [id \in DOMAIN players |-> startRacePlayer(LevelOf(lv), players[id])]
  /\ status' = "countdown"
  /\ startTime' = now + COUNTDOWN_MS
  /\ endTime' = Undefined
  /\ countdown' = 3
  /\ lastTick' = 0
  /\ timerDue' = now + COUNTDOWN_MS
  /\ tickState' = players'
  /\ visits' = [id \in Roster |-> << >>]
  /\ results' = << >>
  /\ last' = [op |-> "startRace", id |-> "-", outcome |-> "ok", ev |-> NoEvents]
  /\ raceEnds' = 0
  /\ UNCHANGED << now, tickCount, inputCount, earlierTimer, lobbyPlayers >>

SessionNext ==
  \/ Next
  \/ StartRace(level)

\* a lobby that runs up to MaxRaces races one after the other, the vote
\* choosing the same map again; the bounds on ticks and inputs hold for the
\* session as a whole
SessionSpec == Init /\ [][SessionNext]_vars

\* startRace asked for again while the race it started before is still in
\* its countdown or running (handleStartRace and startRace test neither the
\* status nor a pending timer): the same as StartRace, and the timer of the
\* call before, if it has not fired yet, stays pending
StartRaceAgain(lv) ==
  /\ status # "finished" /\ raceNo < MaxRaces
  /\ raceNo' = raceNo + 1
  /\ level' = lv
  /\ mode' = LevelOf(lv).type
  /\ players' = [id \in DOMAIN players |-> startRacePlayer(LevelOf(lv), players[id])]
  /\ status' = "countdown"
  /\ startTime' = now + COUNTDOWN_MS
  /\ endTime' = Undefined
  /\ countdown' = 3
  /\ lastTick' = 0
  /\ timerDue' = now + COUNTDOWN_MS
  /\ earlierTimer' = timerDue
  /\ tickState' = players'
  /\ visits' = [id \in Roster |-> << >>]
  /\ results' = << >>
  /\ last' = [op |-> "startRace", id |-> "-", outcome |-> "ok", ev |-> NoEvents]
  /\ raceEnds' = 0
  /\ UNCHANGED << now, tickCount, inputCount, lobbyPlayers >>

\* the setTimeout callback of the startRace call before the last one: it
\* writes to lobby.gameState, the game state of the last call
EarlierTimer ==
  /\ earlierTimer # Undefined /\ now >= earlierTimer
  /\ status' = "racing"
  /\ startTime' = now
  /\ countdown' = Undefined
  /\ earlierTimer' = Undefined
  /\ tickState' = players
  /\ last' = [op |-> "earlierTimer", id |-> "-", outcome |-> "ok", ev |-> NoEvents]
  /\ UNCHANGED << players, mode, level, endTime, lastTick, timerDue, now, tickCount,
                  inputCount, visits, results, raceNo, lobbyPlayers, raceEnds >>

\* the timer that fires next
NextTimer ==
  IF earlierTimer # Undefined THEN earlierTimer ELSE timerDue

\* time passing during a countdown: a tick duration (the first MaxTicks of
\* them), or up to the timer that fires next
CountdownClock(d) ==
  /\ status = "countdown" /\ NextTimer # Undefined /\ now < NextTimer
  /\ \/ d = TICK_DURATION /\ now + d <= Epoch + MaxTicks * TICK_DURATION
     \/ d = NextTimer - now
  /\ now' = now + d
  /\ last' = [op |-> "clock", id |-> "-", outcome |-> "ok", ev |-> NoEvents]
  /\ UNCHANGED << players, status, mode, level, startTime, endTime, countdown,
                  lastTick, timerDue, tickCount, inputCount, tickState, visits,
                  results, raceNo, earlierTimer, lobbyPlayers, raceEnds >>

\* the player_input messages of a client that walks: no jump, the timestamp
\* left to the server
WalkMessages == {data \in Messages : ~data.jump /\ data.timestamp = 0}

\* the player_input message of a client that holds right
RunRight == [left |-> FALSE, right |-> TRUE, jump |-> FALSE, timestamp |-> 0]

\* time passing after a countdown: a running race does not go past a timer
\* that is still pending, the callback runs when it is due
RestartClock(d) ==
  /\ status = "racing" /\ NextTimer # Undefined => now + d <= NextTimer
  /\ AdvanceClock(d)

\* the timers run in the order in which they were set
LaterTimer ==
  /\ earlierTimer = Undefined
  /\ CountdownTimer

RestartNext ==
  \/ LaterTimer
  \/ EarlierTimer
  \/ \E d \in {TICK_DURATION} \cup {COUNTDOWN_MS - k * TICK_DURATION : k \in 0 .. MaxTicks} :
       CountdownClock(d)
  \/ \E d \in {TICK_DURATION, RACE_DURATION} : RestartClock(d)
  \/ Update
  \/ StartRaceAgain(level)
  \/ \E id \in Roster : HandlePlayerInput(id, RunRight)

\* a lobby in which the start of the race may be asked for a second time
\* before the first race has ended
RestartSpec == Init /\ [][RestartNext]_vars

\* mutation of LeaveLobby: the player that leaves is taken out of the race
\* as well (its record in the game state marked finished)
LeaveLobbyAndRace(id) ==
  /\ id \in lobbyPlayers
  /\ lobbyPlayers' = lobbyPlayers \ {id}
  /\ players' = [players EXCEPT ![id].finished = TRUE]
  /\ last' = [op |-> "leaveLobby", id |-> id, outcome |-> "ok", ev |-> NoEvents]
  /\ UNCHANGED << status, mode, level, startTime, endTime, countdown, lastTick,
                  timerDue, now, tickCount, inputCount, tickState, visits, results,
                  raceNo, earlierTimer, raceEnds >>

\* leaveLobby (leave_lobby message, or the socket closing): the player is
\* deleted from lobby.players; the game state holds its own Map of the
\* players, made by startRace, and is not touched
LeaveLobby(id) ==
  /\ id \in lobbyPlayers
  /\ lobbyPlayers' = lobbyPlayers \ {id}
  /\ last' = [op |-> "leaveLobby", id |-> id, outcome |-> "ok", ev |-> NoEvents]
  /\ UNCHANGED << players, status, mode, level, startTime, endTime, countdown,
                  lastTick, timerDue, now, tickCount, inputCount, tickState, visits,
                  results, raceNo, earlierTimer, raceEnds >>

\* the interval of the server goes over the lobbies that exist: a lobby
\* (and its GameLoop) is deleted when its last player leaves
IntervalUpdate == lobbyPlayers # {} /\ Update

\* a player_input message of a client that is in the lobby
LobbyInput(id, data) == id \in lobbyPlayers /\ HandlePlayerInput(id, data)

LeaveNext ==
  \/ CountdownTimer
  \/ \E d \in {TICK_DURATION, COUNTDOWN_MS, RACE_DURATION} : AdvanceClock(d)
  \/ IntervalUpdate
  \/ \E id \in Roster, data \in WalkMessages : LobbyInput(id, data)
  \/ \E id \in Roster : LeaveLobby(id)

\* a race during which players may leave the lobby
LeaveSpec == Init /\ [][LeaveNext]_vars

\* a call of update would process a tick: the race is running and a tick
\* duration has passed since the last processed tick
TickDue ==
  /\ status = "racing" /\ now - lastTick >= TICK_DURATION
  /\ \/ tickCount < MaxTicks
     \/ tickCount >= MaxTicks /\ now - startTime > RACE_DURATION
\* the step of Update that processes a tick is the step that counts one
ProcessedTick == TickDue /\ tickCount' = tickCount + 1

\* The driver: the countdown timer fires once it is due, the interval of the
\* server calls update every 50 ms for as long as the process runs (a tick
\* that is due is processed), and wall-clock time advances.
LiveSpec ==
  /\ Spec
  /\ WF_vars(CountdownTimer)
  /\ WF_tickCount(ProcessedTick)
  /\ WF_vars(\E d \in {TICK_DURATION, COUNTDOWN_MS, RACE_DURATION} : AdvanceClock(d))

\* the player after k further ticks without input, the first at nowMs (a
\* finished player is not processed any more)
RECURSIVE ticksLater(_, _, _, _, _, _)
ticksLater(lv, md, p, k, nowMs, start) ==
  IF k = 0 \/ p.finished THEN p
  ELSE ticksLater(lv, md, tickUnfinished(lv, md, p, nowMs, start).p, k - 1,
                  nowMs + TICK_DURATION, start)

\* a race on the flat sprint level k ticks after p1 jumped: both players
\* were landed by the first tick, at the end of the countdown; p1 then got
\* one jump input and every later tick was processed on time, without
\* further input.  tickCount and inputCount count from here.
MidRace(k) ==
  LET start == Epoch + COUNTDOWN_MS
      landed == tickUnfinished(Sprint2, "sprint", StartPlayer(Sprint2), start, start).p
      jumped == processInput(landed, [left |-> FALSE, right |-> FALSE, jump |-> TRUE,
                                      dash |-> FALSE, timestamp |-> start], start).player
  IN /\ level = "sprint_2"
     /\ mode = "sprint"
     /\ players = [id \in Roster |->
                     ticksLater(Sprint2, "sprint",
                                IF id = "p1" THEN jumped ELSE landed,
                                k, start + TICK_DURATION, start)]
     /\ status = "racing"
     /\ startTime = start
     /\ now = start + k * TICK_DURATION
     /\ lastTick = now
     /\ endTime = Undefined
     /\ countdown = Undefined
     /\ timerDue = Undefined
     /\ tickCount = 0
     /\ inputCount = 0
     /\ tickState = players
     /\ visits = [id \in Roster |-> << >>]
     /\ results = << >>
     /\ raceNo = 1
     /\ earlierTimer = Undefined
     /\ lobbyPlayers = Roster
     /\ raceEnds = 0
     /\ last = [op |-> "update", id |-> "-", outcome |-> "skipped", ev |-> NoEvents]

MidRaceInit == \E k \in {RisingAge, FallingAge, LandingAge} : MidRace(k)

MidRaceNext ==
  \/ \E d \in {TICK_DURATION, RACE_DURATION} : AdvanceClock(d)
  \/ Update
  \/ \E id \in Roster, b \in Buttons, ts \in Timestamps :
       ProcessInput(id, [left |-> b.left, right |-> b.right, jump |-> b.jump,
                         dash |-> b.dash, timestamp |-> ts])

\* a race picked up while p1 is in the air after a jump from the ground
MidRaceSpec == MidRaceInit /\ [][MidRaceNext]_vars

\* a race on the custom sprint level k ticks after p1 started a dash: both
\* players were landed by the first tick; p1 then ran right into the hazard
\* and was respawned by the second tick (dashCooldown = 0), steered left in
\* the air and was carried past the left edge of the level by the third
\* tick, where the dash input (a processInput call with the dash bit) found
\* no column of the level on its path.  Every later tick was processed on
\* time, without further input.  tickCount and inputCount count from here.
DashRace(k) ==
  LET start == Epoch + COUNTDOWN_MS
      none == [left |-> FALSE, right |-> FALSE, jump |-> FALSE, dash |-> FALSE,
               timestamp |-> start]
      landed == tickUnfinished(Sprint3, "sprint", StartPlayer(Sprint3), start, start).p
      righted == processInput(landed, [none EXCEPT !.right = TRUE], start).player
      respawned == tickUnfinished(Sprint3, "sprint", righted,
                                  start + TICK_DURATION, start).p
      lefted == processInput(respawned,
                             [none EXCEPT !.left = TRUE,
                                          !.timestamp = start + TICK_DURATION],
                             start + TICK_DURATION).player
      outside == tickUnfinished(Sprint3, "sprint", lefted,
                                start + 2 * TICK_DURATION, start).p
      dashed == processInput(outside,
                             [none EXCEPT !.dash = TRUE,
                                          !.timestamp = start + 2 * TICK_DURATION],
                             start + 2 * TICK_DURATION).player
  IN /\ level = "sprint_3"
     /\ mode = "sprint"
     /\ players = [id \in Roster |->
                     ticksLater(Sprint3, "sprint",
                                IF id = "p1" THEN dashed ELSE landed,
                                k, start + 3 * TICK_DURATION, start)]
     /\ status = "racing"
     /\ startTime = start
     /\ now = start + (k + 2) * TICK_DURATION
     /\ lastTick = now
     /\ endTime = Undefined
     /\ countdown = Undefined
     /\ timerDue = Undefined
     /\ tickCount = 0
     /\ inputCount = 0
     /\ tickState = players
     /\ visits = [id \in Roster |-> << >>]
     /\ results = << >>
     /\ raceNo = 1
     /\ earlierTimer = Undefined
     /\ lobbyPlayers = Roster
     /\ raceEnds = 0
     /\ last = [op |-> "update", id |-> "-", outcome |-> "skipped", ev |-> NoEvents]

DashInit == \E k \in {NewDashAge, CooldownAge} : DashRace(k)

\* a race picked up after p1 started a dash beyond the left edge of the level
DashSpec == DashInit /\ [][MidRaceNext]_vars

(***************************************************************************)
(* Properties                                                              *)
(***************************************************************************)
\* the game state proper: everything but the clock and the bookkeeping of
\* this model
gameVars == << players, status, mode, level, startTime, endTime, countdown,
               lastTick >>

ThisLevel == LevelOf(level)
Input(b, ts) ==
  [left |-> b.left, right |-> b.right, jump |-> b.jump, dash |-> b.dash,
   timestamp |-> ts]
\* the players the last tick processed without respawning them
Ticked(id) == last.op = "tick" /\ last.ev[id].ticked /\ ~last.ev[id].respawned

\* the box of p and the interior of tile (tx, ty) intersect
BoxOverlapsTile(p, tx, ty) ==
  /\ p.x < (tx + 1) * TILE_SIZE /\ p.x + PLAYER_SIZE > tx * TILE_SIZE
  /\ p.y < (ty + 1) * TILE_SIZE /\ p.y + PLAYER_SIZE > ty * TILE_SIZE
EmbeddedInSolid(lv, p) ==
  \E tx \in 0 .. (lv.width - 1), ty \in 0 .. (lv.height - 1) :
    isSolid(lv, tx, ty) /\ BoxOverlapsTile(p, tx, ty)

\* C1: at the end of every tick without a hazard respawn, no player's box
\* overlaps the interior of a solid-class tile (solid, start or finish).
C1_NoOverlapAtTickEnd ==
  \A id \in Roster : Ticked(id) => ~EmbeddedInSolid(ThisLevel, players[id])

\* column tx holds a thick wall for p: the two rows directly above the
\* floor row of p are solid
ThickWallColumn(lv, p, tx) ==
  LET floorRow == TileOf(p.y + PLAYER_SIZE)
  IN isSolid(lv, tx, floorRow - 1) /\ isSolid(lv, tx, floorRow - 2)
Straddles(p, tx) ==
  p.x < (tx + 1) * TILE_SIZE /\ p.x + PLAYER_SIZE > tx * TILE_SIZE

\* C2: at the end of every tick without a hazard respawn, no player's box
\* straddles a tile column whose two rows directly above the player's floor
\* row are both solid.
C2_NoStraddleAtTickEnd ==
  \A id \in Roster : Ticked(id) =>
    \A tx \in 0 .. (ThisLevel.width - 1) :
      ~(ThickWallColumn(ThisLevel, players[id], tx) /\ Straddles(players[id], tx))

\* the step is a tick that processed player id without respawning it
TickOf(id) ==
  last'.op = "tick" /\ last'.ev[id].ticked /\ ~last'.ev[id].respawned

\* p stands on the ground and travels toward the thick wall of column tx:
\* rightward with the wall's left face ahead of its box, or leftward with
\* the wall's right face ahead
TowardWallRight(lv, p, tx) ==
  p.grounded /\ p.vx > 0 /\ ThickWallColumn(lv, p, tx)
    /\ p.x + PLAYER_SIZE <= tx * TILE_SIZE
TowardWallLeft(lv, p, tx) ==
  p.grounded /\ p.vx < 0 /\ ThickWallColumn(lv, p, tx)
    /\ p.x >= (tx + 1) * TILE_SIZE

\* C3: a player travelling horizontally (at its own height) toward a wall two
\* or more tiles tall never ends the tick with its box beyond the wall's near
\* face, and its vx is 0 at the end of the tick in which it meets the wall;
\* rightward and leftward alike.
C3_ThickWallStops ==
  [][\A id \in Roster : \A tx \in 0 .. (ThisLevel.width - 1) :
       LET p == players[id]
           q == players'[id]
       IN /\ (TickOf(id) /\ q.y = p.y /\ TowardWallRight(ThisLevel, p, tx))
               => /\ q.x + PLAYER_SIZE <= tx * TILE_SIZE
                  /\ (p.x + p.vx + PLAYER_SIZE > tx * TILE_SIZE => q.vx = 0)
          /\ (TickOf(id) /\ q.y = p.y /\ TowardWallLeft(ThisLevel, p, tx))
               => /\ q.x >= (tx + 1) * TILE_SIZE
                  /\ (p.x + p.vx < (tx + 1) * TILE_SIZE => q.vx = 0)]_vars

\* the columns the box of p enters when it moves by its vx
EnteredColumns(p) ==
  IF p.vx > 0
  THEN (TileOf(p.x + PLAYER_SIZE - 1) + 1) .. TileOf(p.x + p.vx + PLAYER_SIZE - 1)
  ELSE TileOf(p.x + p.vx) .. (TileOf(p.x) - 1)
\* column tx is a ledge for p: solid one row above the floor row, not two
LedgeColumn(lv, p, tx) ==
  LET floorRow == TileOf(p.y + PLAYER_SIZE)
  IN isSolid(lv, tx, floorRow - 1) /\ ~isSolid(lv, tx, floorRow - 2)
\* the column the leading edge of the box of p ends its move in
LeadColumn(p) ==
  IF p.vx > 0 THEN TileOf(p.x + p.vx + PLAYER_SIZE - 1) ELSE TileOf(p.x + p.vx)
\* p is grounded and its move ends with the leading edge in a new column that
\* is a ledge, the columns crossed before it being clear above the floor
StepsOntoLedge(lv, p) ==
  LET floorRow == TileOf(p.y + PLAYER_SIZE)
  IN /\ p.grounded /\ p.vx # 0 /\ p.vy = 0
     /\ LeadColumn(p) \in EnteredColumns(p)
     /\ LedgeColumn(lv, p, LeadColumn(p))
     /\ \A tx \in EnteredColumns(p) \ {LeadColumn(p)} :
          ~isSolid(lv, tx, floorRow - 1) /\ ~isSolid(lv, tx, floorRow - 2)

\* C4: a grounded player whose move enters a column whose first solid tile
\* is exactly one row above its floor row ends the same tick on the ledge:
\* y = ledge top - PLAYER_SIZE, vy = 0, grounded, vx unchanged.
C4_StepUpSameTick ==
  [][\A id \in Roster :
       LET p == players[id]
           q == players'[id]
       IN (TickOf(id) /\ StepsOntoLedge(ThisLevel, p))
            => /\ q.y = (TileOf(p.y + PLAYER_SIZE) - 1) * TILE_SIZE - PLAYER_SIZE
               /\ q.vy = 0 /\ q.grounded /\ q.vx = p.vx]_vars

\* the log lines of the branch that blocks at a wall of 2+ tiles
ThickWallBlocks ==
  {"WALL COLLISION RIGHT", "WALL COLLISION LEFT",
   "AIR WALL COLLISION RIGHT", "AIR WALL COLLISION LEFT",
   "AIR COLLISION RIGHT", "AIR COLLISION LEFT"}

\* C5: a block at a thick wall met in the air (no ground under the player in
\* that tick) does not lift the player (y is not less than where the
\* integration put it), does not set grounded and does not reset the jump
\* flags.
C5_BlockIsHorizontalOnly ==
  [][\A id \in Roster :
       LET p == players[id]
           q == players'[id]
       IN (TickOf(id) /\ last'.ev[id].wall \in ThickWallBlocks
             /\ ~p.grounded /\ ~last'.ev[id].onGround)
            => /\ q.y >= updatePlayer(p).y
               /\ ~q.grounded
               /\ q.hasFirstJumped = p.hasFirstJumped
               /\ q.hasSecondJump = p.hasSecondJump]_vars

\* C6: between two ticks only the most recent input shows in the player's
\* state: after an input the player is what that input alone makes of the
\* player the last tick left.
C6_LatestInputOnly ==
  [][\A id \in Roster, b \in Buttons :
       (last'.op = "processInput" /\ last'.id = id
          /\ ProcessInput(id, Input(b, now - STALE_MS))
          /\ status = "racing" /\ ~players[id].finished)
         => players'[id] = processInput(tickState[id], Input(b, now - STALE_MS), now).player]_vars

\* C7: a processInput call whose timestamp is more than 200 ms behind the
\* server clock changes nothing of the players or the game state and raises
\* nothing.
C7_StaleInputDropped ==
  [][\A id \in InputIds, b \in Buttons :
       (last'.op = "processInput" /\ last'.id = id
          /\ ProcessInput(id, Input(b, now - STALE_MS - 1)))
         => UNCHANGED gameVars /\ last'.outcome \in {"stale", "ignored"}]_vars

C7_Witness ==
  /\ last.op = "processInput" /\ last.outcome = "stale"
  /\ last.id \in Roster /\ status = "racing" /\ ~players[last.id].finished

\* C8: a processInput call for an id not in the player map, or while the
\* status is not racing, or for a finished player, changes nothing and raises
\* nothing.
C8_GuardedCallIsNoOp ==
  [][\A id \in InputIds, b \in Buttons, ts \in Timestamps :
       (last'.op = "processInput" /\ last'.id = id
          /\ (id \notin DOMAIN players \/ status # "racing" \/ players[id].finished)
          /\ ProcessInput(id, Input(b, ts)))
         => UNCHANGED gameVars /\ last'.outcome = "ignored"]_vars

C8_Witness ==
  /\ last.op = "processInput" /\ last.outcome = "ignored"
  /\ last.id \in Roster /\ status = "racing" /\ players[last.id].finished

\* C9: once a player has finished, no step changes its finishTime or any
\* other field of its record.
C9_FinishedIsFrozen ==
  [][\A id \in Roster : players[id].finished => players'[id] = players[id]]_vars

C9_Witness ==
  \E id \in Roster :
    /\ players[id].finished /\ players[id].finishTime # Undefined
    /\ last.op = "tick" /\ ~last.ev[id].ticked

\* C10: lapCount grows by exactly 1 in a step in which lastCheckpoint goes
\* from the last index (count - 1) to 0, and does not change in any other.
C10_LapOnWrapOnly ==
  [][\A id \in Roster :
       LET n == Len(ThisLevel.checkpoints)
           wraps == /\ n >= 1
                    /\ players[id].lastCheckpoint = n - 1
                    /\ players'[id].lastCheckpoint = 0
       IN players'[id].lapCount =
            players[id].lapCount + (IF wraps THEN 1 ELSE 0)]_vars

\* the number of checkpoints of v taken in the order of the list, starting
\* with the one expected next, e
RECURSIVE InOrder(_, _, _)
InOrder(v, n, e) ==
  IF v = << >> THEN 0
  ELSE IF Head(v) = e THEN 1 + InOrder(Tail(v), n, (e + 1) % n)
  ELSE InOrder(Tail(v), n, e)

\* C11: in lap mode a finished player has reached every checkpoint of the
\* list, in order, two full times since race start (REQUIRED_LAPS times the
\* number of checkpoints, in order).
C11_TwoFullLapsBeforeFinish ==
  mode = "lap" =>
    \A id \in Roster :
      players[id].finished =>
        InOrder(visits[id], Len(ThisLevel.checkpoints), 0)
          >= REQUIRED_LAPS * Len(ThisLevel.checkpoints)

C13_HazardAlwaysRespawns ==
  [][\A id \in Roster :
       (last'.op = "tick" /\ last'.ev[id].ticked
          /\ touchesHazard(ThisLevel, tileCoords(updatePlayer(players[id]))))
         => last'.ev[id].respawned]_vars

\* the player as checkCollisions leaves it in the coming tick
Collided(id) == checkCollisions(ThisLevel, updatePlayer(players[id])).p

\* C14: a hazard respawn leaves the player on top of the start tile, with
\* vx = vy = 0, not grounded, both jump flags clear, the dash state clear
\* (isDashing false, dashRemaining 0, dashCooldown 0) and lastCheckpoint -1.
C14_RespawnClearsEverything ==
  [][\A id \in Roster :
       (last'.op = "tick" /\ last'.ev[id].respawned)
         => /\ Collided(id).x = (StartTileIdx(ThisLevel) \div ThisLevel.height) * TILE_SIZE
            /\ Collided(id).y = (StartTileIdx(ThisLevel) % ThisLevel.height) * TILE_SIZE
                                  - PLAYER_SIZE
            /\ Collided(id).vx = 0 /\ Collided(id).vy = 0
            /\ ~Collided(id).grounded
            /\ ~Collided(id).hasFirstJumped /\ ~Collided(id).hasSecondJump
            /\ ~Collided(id).isDashing
            /\ Collided(id).dashRemaining = 0
            /\ Collided(id).dashCooldown = 0
            /\ Collided(id).lastCheckpoint = -1]_vars

\* the race-end condition of a tick, on the players the tick leaves
RaceOver ==
  \/ now - startTime > RACE_DURATION
  \/ mode = "sprint" /\ \A id \in Roster : players'[id].finished

\* C15: a processed tick sets status to finished and endTime to the current
\* time exactly when the elapsed race time exceeds RACE_DURATION or, in
\* sprint mode only, every player has finished; otherwise it leaves status
\* and endTime alone, and no other step ends the race.
C15_RaceEndsExactlyWhen ==
  [][/\ last'.op = "tick" =>
          IF RaceOver
          THEN status' = "finished" /\ endTime' = now
          ELSE status' = "racing" /\ endTime' = endTime
     /\ last'.op # "tick" =>
          /\ (status' = "finished" => status = "finished")
          /\ endTime' = endTime]_vars

\* a lap-mode tick left every player finished and the race running
C15_Witness ==
  /\ mode = "lap" /\ last.op = "tick" /\ status = "racing"
  /\ \A id \in Roster : players[id].finished

\* C16: every race that reaches status racing eventually reaches status
\* finished, when update keeps being called and time advances.
C16_RaceEventuallyFinishes ==
  (status = "racing") ~> (status = "finished")

\* the time limit ended a race in which no player had finished
C16_Witness ==
  /\ status = "finished" /\ endTime = now
  /\ now - startTime > RACE_DURATION
  /\ \A id \in Roster : ~players[id].finished

\* C17: once the status is finished, no step (no update call, no
\* processInput call, no passing of time) changes a player, the status or
\* endTime.
C17_FinishedRaceIsFrozen ==
  [][status = "finished" =>
       players' = players /\ status' = status /\ endTime' = endTime]_vars

\* update was called after the race had ended and a tick duration had passed
C17_Witness ==
  /\ status = "finished" /\ now - lastTick >= TICK_DURATION
  /\ last.op = "update" /\ last.outcome = "not racing"
  /\ \E id \in Roster : ~players[id].finished

\* C18: a tick that processes a player (unfinished before it) leaves it
\* finished exactly when the tile of the centre of its box is a finish tile
\* and, in lap mode, lapCount >= REQUIRED_LAPS; finishTime is then the
\* current time minus the race start time, and is untouched otherwise.
C18_FinishedExactlyOnFinishTile ==
  [][\A id \in Roster :
       (last'.op = "tick" /\ last'.ev[id].ticked) =>
         LET q == players'[id]
             onFinish == isFinish(ThisLevel, centerTileX(q), centerTileY(q))
         IN /\ q.finished <=>
                 (onFinish /\ (mode = "lap" => q.lapCount >= REQUIRED_LAPS))
            /\ q.finishTime = IF q.finished THEN now - startTime
                              ELSE players[id].finishTime]_vars

\* a lap-mode tick finished a player on the finish tile with enough laps
C18_Witness ==
  \E id \in Roster :
    /\ mode = "lap" /\ last.op = "tick" /\ last.ev[id].ticked
    /\ players[id].finished /\ players[id].lapCount >= REQUIRED_LAPS
    /\ players[id].finishTime = now - startTime
    /\ isFinish(ThisLevel, centerTileX(players[id]), centerTileY(players[id]))

\* the time of the coming tick in a run whose ticks are one tick duration
\* apart, the first at the race start
NominalNow == startTime + tickCount * TICK_DURATION

\* C19: the snapshot a tick produces is determined by the level, the snapshot
\* before it (the inputs applied up to this tick boundary) and the index of
\* the tick: every run produces what the run with evenly spaced ticks
\* produces, finishTime, status and endTime included.
C19_SnapshotsDependOnInputsOnly ==
  [][last'.op = "tick" =>
       /\ players' = [id \in Roster |->
                        tickUnfinished(ThisLevel, mode, players[id],
                                       NominalNow, startTime).p]
       /\ status' = checkRaceEnd(players', mode, NominalNow, startTime,
                                 status, endTime).status
       /\ endTime' = checkRaceEnd(players', mode, NominalNow, startTime,
                                  status, endTime).endTime]_vars

\* the levels whose start tile lies in flat ground: the first tick leaves the
\* players at rest on it
FlatLevels == {"sprint_2", "lap_2"}
DashOnly == [left |-> FALSE, right |-> FALSE, jump |-> FALSE, dash |-> TRUE]

\* the player jumped from rest on the ground three ticks ago, is airborne,
\* has no horizontal speed and has not dashed in this race
ThreeTicksIntoJump(p) ==
  /\ ~p.grounded /\ p.hasFirstJumped /\ p.vx = 0
  /\ p.vy = JUMP_STRENGTH + 3 * GRAVITY
  /\ ~p.isDashing /\ ~p.hasDashed /\ p.dashCooldown \in {Undefined, 0}

\* C20: a dash input to a player that jumped from rest on flat ground three
\* ticks earlier and has not dashed before starts a dash: isDashing becomes
\* true and vx the dash speed in the default direction, right.
C20_DashStartsInTheAir ==
  [][\A id \in Roster :
       (last'.op = "processInput" /\ last'.id = id
          /\ status = "racing" /\ ~players[id].finished
          /\ level \in FlatLevels /\ tickCount >= 4
          /\ ThreeTicksIntoJump(players[id])
          /\ ProcessInput(id, Input(DashOnly, now - STALE_MS)))
         => players'[id].isDashing /\ players'[id].vx = DASH_SPEED]_vars

\* the jump impulses processInput would still give the player before its
\* next landing: two on the ground or in the air with no jump used, one with
\* the second jump armed, none otherwise.  Every impulse of applyJump lowers
\* the number by one.
jumpsLeft(p) ==
  IF p.grounded \/ ~p.hasFirstJumped THEN 2
  ELSE IF p.hasSecondJump THEN 1 ELSE 0

\* the tick put the player on ground: ground detection found support, or
\* the player was stepped up onto a ledge
GroundContact(ev) ==
  ev.onGround \/ ev.wall \in {"AUTO STEP UP RIGHT", "AUTO STEP UP LEFT"}

\* C21: between two ground contacts a player receives at most two jump
\* impulses: the number of impulses still available never rises except in a
\* tick that puts the player on ground (or respawns it), whatever inputs,
\* ticks and wall contacts occur in the air.
C21_AtMostTwoJumpsPerAirtime ==
  [][\A id \in Roster :
       jumpsLeft(players'[id]) > jumpsLeft(players[id])
         => /\ last'.op = "tick"
            /\ GroundContact(last'.ev[id]) \/ last'.ev[id].respawned]_vars

\* position i of the results comes before position j in the order asked for
ResultBefore(i, j) ==
  LET a == players[results[i].playerId]
      b == players[results[j].playerId]
  IN /\ a.finished \/ ~b.finished
     /\ (a.finished /\ b.finished) => a.finishTime <= b.finishTime
     /\ (~a.finished /\ ~b.finished) => a.distance >= b.distance

\* C22: the results of a finished race list every player once, finished
\* players before unfinished ones, finished players by ascending finishTime,
\* unfinished players by descending distance, and the placement of each is
\* its 1-based position.
C22_ResultsOrdered ==
  status = "finished" =>
    /\ Len(results) = Cardinality(Roster)
    /\ {results[i].playerId : i \in DOMAIN results} = Roster
    /\ \A i \in DOMAIN results : results[i].placement = i
    /\ \A i, j \in DOMAIN results : i < j => ResultBefore(i, j)

\* the sort moved the second player in front of the first
C22_Witness ==
  /\ status = "finished"
  /\ results[1].playerId = "p2"
  /\ players["p2"].finished

\* C23: the start of a new race resets every mutable simulation field of
\* every player to its initial value (finishTime, the jump flags, the dash
\* state and cooldown and rotation included): the players of the new race
\* are the players the first race started with.
C23_NewRaceStartsClean ==
  [][last'.op = "startRace"
       => \A id \in Roster : players'[id] = StartPlayer(LevelOf(level'))]_vars

\* how far outside the level the coordinates of the tile queries are taken
Margin == 2
\* the coordinates outside the level, up to Margin tiles away
OutsideCoords ==
  {c \in ((-Margin) .. (LevelWidth + Margin - 1))
           \X ((-Margin) .. (LevelHeight + Margin - 1)) :
     c[1] < 0 \/ c[1] >= LevelWidth \/ c[2] < 0 \/ c[2] >= LevelHeight}

\* the queries on level lv answer as for a missing tile at (x, y)
AnswersNull(lv, x, y) ==
  /\ getTileAt(lv, x, y) = "null"
  /\ ~isSolid(lv, x, y) /\ ~isHazard(lv, x, y)
  /\ ~isCheckpoint(lv, x, y) /\ ~isFinish(lv, x, y)

\* the levels on which every query outside the level answers null
NullOutside ==
  {id \in LevelIds :
     \A c \in OutsideCoords : AnswersNull(LevelOf(id), c[1], c[2])}

\* C24: outside 0 <= x < width, 0 <= y < height (negative coordinates
\* included) getTileAt returns null and isSolid, isHazard, isCheckpoint and
\* isFinish return false, whatever level the race runs on.
C24_OutsideIsNull == level \in NullOutside

\* a tick whose ground detection looked under a player beyond the right
\* edge of the level, or whose ceiling test looked above the top row
C24_Witness ==
  /\ last.op = "tick"
  /\ \E id \in Roster :
       /\ last.ev[id].ticked /\ last.ev[id].wall = "none"
       /\ ~last.ev[id].respawned
       /\ \/ tileCoords(players[id]).CX >= LevelWidth /\ ~last.ev[id].onGround
          \/ tileCoords(players[id]).T - 1 < 0

\* C25: a processInput call with jump pressed for a grounded player sets vy
\* to the first-jump impulse, clears grounded, marks the first jump used and
\* the second jump armed, and leaves vx as it was, whatever the left and
\* right bits of the input are.
C25_GroundJumpKeepsVx ==
  [][\A id \in Roster : \A b \in Buttons :
       (last'.op = "processInput" /\ last'.id = id
          /\ status = "racing" /\ ~players[id].finished
          /\ players[id].grounded /\ b.jump
          /\ ProcessInput(id, Input(b, now - STALE_MS)))
         => /\ players'[id].vy = JUMP_STRENGTH
            /\ ~players'[id].grounded
            /\ players'[id].hasFirstJumped /\ players'[id].hasSecondJump
            /\ players'[id].vx = players[id].vx]_vars

\* the player can use its second jump: airborne, first jump used, second armed
SecondJumpArmed(p) == ~p.grounded /\ p.hasFirstJumped /\ p.hasSecondJump

Grounding(id) ==
  groundCheck(ThisLevel, updatePlayer(players[id]), tileCoords(updatePlayer(players[id])))

\* the player as a ground contact has to leave it
Landed(p) ==
  /\ (p.y + PLAYER_SIZE) % TILE_SIZE = 0
  /\ p.vy = 0 /\ p.grounded /\ p.rotation = 0
  /\ ~p.hasFirstJumped /\ ~p.hasSecondJump

\* C27: every ground contact found by ground detection (centre tile under
\* the feet, centre tile one row below, fallback scan) snaps y to the tile
\* top minus the player height, sets vy = 0, grounded = true, rotation = 0
\* and resets hasFirstJumped and hasSecondJump.
C27_ContactResetsJumps ==
  [][\A id \in Roster :
       (last'.op = "tick" /\ last'.ev[id].ticked /\ last'.ev[id].onGround)
         => Landed(Grounding(id).p)]_vars

\* the step starts a dash of player id
DashStarts(id) == ~players[id].isDashing /\ players'[id].isDashing

\* the step ends a dash of player id
DashEnds(id) == players[id].isDashing /\ ~players'[id].isDashing

\* C28: a dash that ends leaves the cooldown counter at DASH_COOLDOWN_TICKS;
\* every tick that processes the player without respawning it and without
\* ending a dash takes exactly one off a counter above zero, no other step
\* (no input, whatever its buttons) changes the counter, and a dash starts
\* only at counter zero: so no dash starts within DASH_COOLDOWN_TICKS
\* processed ticks of the end of the last one.
C28_DashCooldown ==
  [][\A id \in Roster :
       /\ DashStarts(id) => players[id].dashCooldown = 0
       /\ DashEnds(id) => players'[id].dashCooldown = DASH_COOLDOWN_TICKS
       /\ (TickOf(id) /\ ~DashEnds(id) /\ players[id].dashCooldown > 0)
            => players'[id].dashCooldown = players[id].dashCooldown - 1
       /\ last'.op # "tick" => players'[id].dashCooldown = players[id].dashCooldown]_vars

\* a second dash of p1, started by an input once the ticks after the first
\* dash had run the counter down to zero
C28_Witness ==
  /\ last.op = "processInput" /\ last.id = "p1" /\ last.outcome = "ok"
  /\ players["p1"].isDashing
  /\ players["p1"].dashCooldown = 0
  /\ players["p1"].dashRemaining = DASH_DISTANCE * TILE_SIZE
  /\ tickCount >= 1

\* the columns between the box and the end of a dash of length len in
\* direction dir
DashPath(p, dir, len) ==
  IF dir > 0
  THEN (TileOf(p.x + PLAYER_SIZE) + 1) .. TileOf(p.x + PLAYER_SIZE + len)
  ELSE TileOf(p.x - len) .. (TileOf(p.x) - 1)

\* a dash of length len in direction dir ends before the near face of
\* column cx
StopsBefore(p, dir, len, cx) ==
  IF dir > 0
  THEN p.x + PLAYER_SIZE + len <= cx * TILE_SIZE
  ELSE p.x - len >= (cx + 1) * TILE_SIZE

Coasting(id) ==
  /\ players[id] = tickState[id]
  /\ players[id].grounded /\ ~players[id].isDashing
  /\ players[id].vx # 0
  /\ Abs(players[id].vx) \notin {GROUND_MOVE_SPEED, AIR_CONTROL_SPEED}

\* C30: every processed tick reduces the horizontal speed of a grounded,
\* non-dashing player that got no input since the tick before.
C30_FrictionEveryTick ==
  [][\A id \in Roster :
       (TickOf(id) /\ Coasting(id))
         => Abs(players'[id].vx) < Abs(players[id].vx)]_vars

\* C31: every player's rotation lies in [0, 360) in every state, and is 0
\* after any tick that leaves the player grounded.
C31_RotationInRange ==
  \A id \in Roster :
    /\ players[id].rotation >= 0 /\ players[id].rotation < 360
    /\ (last.op = "tick" /\ last.ev[id].ticked /\ players[id].grounded)
         => players[id].rotation = 0

\* C32: during a race no step lowers a player's distance.
C32_DistanceNeverDecreases ==
  [][\A id \in Roster : players'[id].distance >= players[id].distance]_vars

\* C33: in every state (after every tick and every processInput call) every
\* player has |vy| <= MAX_VERTICAL_SPEED, and every airborne player has
\* |vx| <= MAX_HORIZONTAL_SPEED.
C33_VelocityBounds ==
  \A id \in Roster :
    /\ Abs(players[id].vy) <= MAX_VERTICAL_SPEED
    /\ ~players[id].grounded => Abs(players[id].vx) <= MAX_HORIZONTAL_SPEED

\* a tick has just held a falling player at the vertical speed limit
C33_Witness ==
  /\ last.op = "tick"
  /\ \E id \in Roster :
       /\ last.ev[id].ticked
       /\ ~players[id].grounded
       /\ tickState[id].vy = MAX_VERTICAL_SPEED
       /\ players[id].vy = MAX_VERTICAL_SPEED
       /\ tickCount >= 2

\* C34: at the end of every tick in which ground detection found no
\* supporting tile for a player, that player's grounded flag is false,
\* whichever wall resolution ran in the tick.
C34_NoGroundNotGrounded ==
  \A id \in Roster :
    (last.op = "tick" /\ last.ev[id].ticked /\ ~last.ev[id].onGround)
      => ~players[id].grounded

\* C35: an update call made while the status is not racing, or less than
\* TICK_DURATION after the last processed tick, changes no field of the
\* game state (nor the loop's lastTick).
C35_GatedUpdateChangesNothing ==
  [][(/\ last'.op \in {"update", "tick"}
      /\ status # "racing" \/ now - lastTick < TICK_DURATION)
       => UNCHANGED gameVars]_vars

\* an update call skipped in mid-race: a tick was processed less than
\* TICK_DURATION ago
C35_Witness ==
  /\ last.op = "update" /\ last.outcome = "skipped"
  /\ status = "racing"
  /\ tickCount >= 1
  /\ now - lastTick < TICK_DURATION

\* the orders in which the loop of update can take the players
Orders ==
  {o \in [1 .. Cardinality(Roster) -> Roster] :
     \A i, j \in DOMAIN o : i # j => o[i] # o[j]}

C37_StatusOnlyForward ==
  [][last'.op # "startRace"
       => /\ status' # status
               => \/ status = "countdown" /\ status' = "racing"
                  \/ status = "racing" /\ status' = "finished"
          /\ startTime' # startTime
               => status = "countdown" /\ status' = "racing"]_vars

\* the players of the race that have left the lobby
Departed == Roster \ lobbyPlayers

\* C38: a player that leaves the lobby during a race is deleted from the
\* lobby only: the game state, its player map included, stays as it is; and
\* a sprint race with a departed player that has not finished ends by the
\* time limit only.
C38_DepartedPlayerStaysInRace ==
  [][/\ last'.op = "leaveLobby"
          => /\ UNCHANGED gameVars
             /\ DOMAIN players' = Roster
     /\ (/\ status = "racing" /\ status' = "finished"
         /\ \E id \in Departed : ~players'[id].finished)
          => now - startTime > RACE_DURATION]_vars

\* a sprint race goes on although every player still in the lobby has
\* finished: the one that left has not
C38_Witness ==
  /\ status = "racing" /\ mode = "sprint"
  /\ last.op = "tick"
  /\ lobbyPlayers # {}
  /\ \A id \in lobbyPlayers : players[id].finished
  /\ \E id \in Departed : ~players[id].finished


\* C39: the results of a race are computed and race_end is broadcast once,
\* in the tick that takes the status from racing to finished, and never
\* again for that game state: a finished game state has had its one
\* race_end and no game state has had more than one.
C39_RaceEndOnce ==
  /\ raceEnds <= 1
  /\ status = "finished" => raceEnds = 1 /\ results # << >>
  /\ status # "finished" => results = << >> \/ raceEnds = 1


\* the box of p overlaps a finish tile of the level
OverlapsFinish(lv, p) ==
  \E tx \in TileOf(p.x) .. TileOf(p.x + PLAYER_SIZE - 1),
     ty \in TileOf(p.y) .. TileOf(p.y + PLAYER_SIZE - 1) :
    isFinish(lv, tx, ty) /\ BoxOverlapsTile(p, tx, ty)

\* p stands on top of a finish tile: its feet on the top edge, its box over
\* the columns of the tile
StandsOnFinish(lv, p) ==
  \E tx \in TileOf(p.x) .. TileOf(p.x + PLAYER_SIZE - 1),
     ty \in {TileOf(p.y + PLAYER_SIZE)} :
    /\ isFinish(lv, tx, ty)
    /\ p.y + PLAYER_SIZE = ty * TILE_SIZE
    /\ p.x < (tx + 1) * TILE_SIZE /\ p.x + PLAYER_SIZE > tx * TILE_SIZE

\* C40: a player whose box does not overlap a finish tile is not marked
\* finished, a player that stands on top of the finish tile included: every
\* finished player's box overlaps a finish tile of the level.
C40_FinishedOnlyInsideFinishTile ==
  \A id \in Roster :
    /\ players[id].finished => OverlapsFinish(ThisLevel, players[id])
    /\ StandsOnFinish(ThisLevel, players[id]) => ~players[id].finished

\* a tick of a sprint race processed a player that stands on top of the
\* finish tile and left it unfinished
C40_Witness ==
  \E id \in Roster :
    /\ mode = "sprint" /\ last.op = "tick" /\ last.ev[id].ticked
    /\ StandsOnFinish(ThisLevel, players[id])
    /\ players[id].grounded
    /\ ~players[id].finished

====
